---- MODULE Spec2Model ----
(***************************************************************************)
(* goapplib: the loader chain (view.go), template spec resolution and the  *)
(* route registrars (mixins.go, muxbuilder.go).                            *)
(*                                                                         *)
(* The specifications sharing the module:                                  *)
(*   SpecLoadAll  one run of LoadAll over a sequence of loaders            *)
(*   SpecParse    ParseTemplateSpec applied to a template spec string      *)
(*   Spec         route setup followed by requests served by the handlers  *)
(*                that Register, SmartRegister and MuxBuilder.Page build   *)
(*   SpecHtmx     WithHtmx.Load and ShouldRenderFragment on a request      *)
(*   SpecApp      everything that is handed the *App, run side by side     *)
(*   SpecMw       Register with middleware and requests passing through it  *)
(*   SpecPagination, SpecBasePage, SpecAuth   the built-in mixins           *)
(*   SpecHtmxResponse   the response-header setters of HtmxResponse        *)
(*   SpecGroup    page groups mounted under a prefix, and requests to them  *)
(*   SpecBuilder  MuxBuilder.Use and the routes added around it            *)
(* Strings are sequences of one-character strings.                         *)
(***************************************************************************)
EXTENDS Integers, Sequences, FiniteSets, TLC

VARIABLES
    loaders,    \* LoadAll: the loaders argument (what each entry's Load returns)
    li,         \* LoadAll: position of the range loop
    calls,      \* LoadAll: indices of the loaders whose Load was invoked, in order
    ret,        \* LoadAll: the value returned, once returned
    pspec,      \* ParseTemplateSpec: the spec argument
    parsed,     \* ParseTemplateSpec: the (fileName, blockName) returned
    reparsed,   \* ParseTemplateSpec: what parsing parsed.fileName again returned
    phase,      \* "setup" | "serving" | "panicked"
    mux,        \* pattern -> the route registered at it
    req,        \* request -> state of its handler invocation
    nextView,   \* allocation counter of view instances
    app,        \* the *App handed to the registrars, handlers and loaders
    hx,         \* WithHtmx: a request's headers and the mixin loaded from them
    pg,         \* WithPagination: the query it is loaded from and its fields
    bp,         \* BasePage: its fields, before and after Load
    au,         \* WithAuth: the provider, the fields and the provider calls made
    hr,         \* HtmxResponse: the response's headers and the setters called
    gm,         \* page groups: the mounted routers and a request routed through them
    bld         \* MuxBuilder: the Use calls made and the routes added

loadVars  == <<loaders, li, calls, ret>>
parseVars == <<pspec, parsed, reparsed>>
routeVars == <<phase, mux, req, nextView>>
appVars   == <<app>>
hxVars    == <<hx>>
mixVars   == <<pg, bp, au, hr, gm, bld>>
vars      == <<loaders, li, calls, ret, pspec, parsed, reparsed, phase, mux, req, nextView,
               app, hx, pg, bp, au, hr, gm, bld>>

(* ------------------------------ bounds -------------------------------- *)
MaxLoaders == 3     \* length of the loaders argument of LoadAll
MaxLen     == 5     \* length of a template spec string given to ParseTemplateSpec
MaxMwOpts  == 2     \* options handed to one Register call with middleware
MaxReqs    == 2     \* requests served, possibly concurrently
IntBits    == 16    \* width of the machine integer (Go's int), scaled down

(* ------------------------------ values -------------------------------- *)
NoErr  == "nil"                 \* the nil error
Errors == {"e1", "e2"}          \* non-nil errors a Load can return
Chars  == {"d", "A", "B", "/", ":"}

Range(s) == {s[i] : i \in 1..Len(s)}
StringsUpTo(n) == UNION {[1..k -> Chars] : k \in 0..n}

\* strings.LastIndex(s, c) for a one-character c, 1-based; 0 stands for Go's -1
LastIndex(s, c) ==
    IF \E i \in 1..Len(s) : s[i] = c
    THEN CHOOSE i \in 1..Len(s) : s[i] = c /\ \A j \in (i+1)..Len(s) : s[j] # c
    ELSE 0

\* strings.Contains(s, c) for a one-character c
Contains(s, c) == \E i \in 1..Len(s) : s[i] = c

(* ----------------------- template spec resolution --------------------- *)
baseFileName(path) ==
    LET idx == LastIndex(path, "/")
    IN  IF idx >= 1 THEN SubSeq(path, idx + 1, Len(path)) ELSE path

\* The position ParseTemplateSpec splits at.
SplitIndex_first(spec) ==
    IF Contains(spec, ":")
    THEN CHOOSE i \in 1..Len(spec) : spec[i] = ":" /\ \A j \in 1..(i-1) : spec[j] # ":"
    ELSE 0

SplitIndex(spec) == LastIndex(spec, ":")

\* (a parse that already appends the renderer's ".html")
ParseTemplateSpec_appendsExtension(spec) ==
    LET idx == SplitIndex(spec)
    IN  IF idx >= 1
        THEN [fileName  |-> SubSeq(spec, 1, idx - 1) \o <<".", "h", "t", "m", "l">>,
              blockName |-> SubSeq(spec, idx + 1, Len(spec))]
        ELSE [fileName  |-> spec \o <<".", "h", "t", "m", "l">>,
              blockName |-> baseFileName(spec)]

ParseTemplateSpec(spec) ==
    LET idx == SplitIndex(spec)
    IN  IF idx >= 1
        THEN [fileName  |-> SubSeq(spec, 1, idx - 1),
              blockName |-> SubSeq(spec, idx + 1, Len(spec))]
        ELSE [fileName  |-> spec,
              blockName |-> baseFileName(spec)]

(* ------------------------------ LoadAll -------------------------------- *)
\* What one entry of the loaders argument does when LoadAll reaches it: a nil
\* entry, or a loader whose Load returns (err, finished).
NilLoader == [isNil |-> TRUE, err |-> NoErr, finished |-> FALSE]
LoaderKinds ==
    {NilLoader} \cup
    {[isNil |-> FALSE, err |-> e, finished |-> f] : e \in Errors \cup {NoErr}, f \in BOOLEAN}

NotReturned == [returned |-> FALSE, err |-> NoErr, finished |-> FALSE]
Returned(e, f) == [returned |-> TRUE, err |-> e, finished |-> f]

\* view.go:34  if loader == nil { continue }
IsSkipped_never(l) == FALSE

IsSkipped(l) == l.isNil

\* view.go:37  finished || err != nil
StopsChain_onlyFinished(err, finished) == finished
StopsChain_onlyError(err, finished) == err # NoErr

StopsChain(err, finished) == finished \/ err # NoErr

\* One iteration of the range loop.
LoadAllIter ==
    /\ ~ret.returned
    /\ li <= Len(loaders)
    /\ LET l == loaders[li]
       IN  IF IsSkipped(l)
           THEN /\ li' = li + 1
                /\ UNCHANGED <<calls, ret>>
           ELSE /\ calls' = Append(calls, li)
                /\ IF StopsChain(l.err, l.finished)
                   THEN /\ ret' = Returned(l.err, l.finished)
                        /\ li' = li
                   ELSE /\ li' = li + 1
                        /\ ret' = ret
    /\ UNCHANGED <<loaders, parseVars, routeVars, appVars, hxVars, mixVars>>

\* The return after the loop.
LoadAllEnd ==
    /\ ~ret.returned
    /\ li > Len(loaders)
    /\ ret' = Returned(NoErr, FALSE)
    /\ UNCHANGED <<loaders, li, calls, parseVars, routeVars, appVars, hxVars, mixVars>>

(* ------------------------- ParseTemplateSpec run ----------------------- *)
NotParsed == [done |-> FALSE, fileName |-> <<>>, blockName |-> <<>>]

ParseSpec ==
    /\ ~parsed.done
    /\ LET p == ParseTemplateSpec(pspec)
       IN  parsed' = [done |-> TRUE, fileName |-> p.fileName, blockName |-> p.blockName]
    /\ UNCHANGED <<pspec, reparsed, loadVars, routeVars, appVars, hxVars, mixVars>>

\* The file name ParseTemplateSpec returned is given to it again.
ReparseFile ==
    /\ parsed.done
    /\ ~reparsed.done
    /\ LET p == ParseTemplateSpec(parsed.fileName)
       IN  reparsed' = [done |-> TRUE, fileName |-> p.fileName, blockName |-> p.blockName]
    /\ UNCHANGED <<pspec, parsed, loadVars, routeVars, appVars, hxVars, mixVars>>

(* ------------------------- route registration -------------------------- *)
Patterns == {"/x"}

\* Template spec strings handed to WithTemplate and SmartRegister.
TemplateSpecs ==
    { <<>>,
      <<"A">>,
      <<"d", "/", "A">>,
      <<"d", "/", "A", ":", "B">>,
      <<"d", "/", "A", ":">>,
      <<":", "B">>,
      <<"A", ":", "B", ":">> }

\* Types: the view type *Foo, the struct type Foo (it satisfies View when Load
\* has a value receiver), and the interface type any.
FooPtr    == [kind |-> "ptr", name |-> <<"F", "o", "o">>]
FooStruct == [kind |-> "struct", name |-> <<"F", "o", "o">>]
AnyType   == [kind |-> "interface", name |-> <<>>]
ViewTypes == {FooPtr, FooStruct}     \* type arguments V of Register, SmartRegister
MakerTypes == {FooPtr}               \* what a maker handed to MuxBuilder.Page returns

\* An Option value; applying it to the options struct is ApplyOption.
TemplateOption(spec) == [kind |-> "WithTemplate", spec |-> spec]
OptionLists == {<<>>} \cup {<<TemplateOption(s)>> : s \in TemplateSpecs}

NoOptions == [templateFileName |-> <<>>, templateBlockName |-> <<>>, middleware |-> <<>>]

\* WithTemplate(spec) applied to o
WithTemplate(spec, o) ==
    [o EXCEPT !.templateFileName  = ParseTemplateSpec(spec).fileName,
              !.templateBlockName = ParseTemplateSpec(spec).blockName]

\* WithMiddleware(mw...) applied to o: o.middleware = append(o.middleware, mw...)
MiddlewareOption(mw) == [kind |-> "WithMiddleware", mw |-> mw]

WithMiddleware(mw, o) == [o EXCEPT !.middleware = @ \o mw]

ApplyOption(opt, o) ==
    CASE opt.kind = "WithTemplate"   -> WithTemplate(opt.spec, o)
      [] opt.kind = "WithMiddleware" -> WithMiddleware(opt.mw, o)

\* A handler is written as the sequence of functions a request passes through,
\* outermost first; m(handler) puts m in front.
ViewHandler == <<"view">>

RECURSIVE WrapUp(_, _, _)
WrapUp(middleware, i, handler) ==
    IF i > Len(middleware) THEN handler
    ELSE WrapUp(middleware, i + 1, <<middleware[i]>> \o handler)

WrapMiddleware_forward(middleware, handler) == WrapUp(middleware, 1, handler)

\* for i := len(o.middleware) - 1; i >= 0; i-- { handler = o.middleware[i](handler) }
RECURSIVE WrapDown(_, _, _)
WrapDown(middleware, i, handler) ==
    IF i < 1 THEN handler
    ELSE WrapDown(middleware, i - 1, <<middleware[i]>> \o handler)

WrapMiddleware(middleware, handler) == WrapDown(middleware, Len(middleware), handler)

\* o := &options{}; for _, opt := range opts { opt(o) }
RECURSIVE ApplyFrom(_, _, _)
ApplyFrom(opts, i, o) ==
    IF i > Len(opts) THEN o ELSE ApplyFrom(opts, i + 1, ApplyOption(opts[i], o))

ApplyOptions(opts) == ApplyFrom(opts, 1, NoOptions)

\* typeNameOf[T](): reflect.TypeOf of T's zero value is the nil Type when T is an
\* interface type, and typ.Kind() on it panics.
typeNameOf_keepsPointer(T) ==
    IF T.kind = "interface"
    THEN [panics |-> TRUE,  name |-> <<>>]
    ELSE [panics |-> FALSE, name |-> IF T.kind = "ptr" THEN <<"*">> \o T.name ELSE T.name]

typeNameOf(T) ==
    IF T.kind = "interface"
    THEN [panics |-> TRUE,  name |-> <<>>]
    ELSE [panics |-> FALSE, name |-> T.name]

\* typeNameFromValue(v): v is the sample view maker() returned (isNil: v == nil).
typeNameFromValue(isNil) ==
    IF isNil THEN [panics |-> FALSE, name |-> <<>>] ELSE typeNameOf(AnyType)

\* newInstance[T]() panics unless T is a pointer type (mixins.go:530-535).
newInstancePanics(T) == T.kind # "ptr"

NoRoute ==
    [kind |-> "none", vtype |-> FooPtr, opts |-> <<>>, fullSpec |-> <<>>, fragSpec |-> <<>>,
     file |-> <<>>, block |-> <<>>, fragFile |-> <<>>, fragBlock |-> <<>>, mount |-> "",
     handler |-> <<>>]

\* Register: the template file and block names the handler closes over.
RegisterTemplate(V, opts) ==
    LET o    == ApplyOptions(opts)
        file == IF o.templateFileName = <<>> THEN typeNameOf(V).name ELSE o.templateFileName
        block == IF o.templateBlockName = <<>> /\ ~Contains(o.templateFileName, ":")
                 THEN baseFileName(file)
                 ELSE o.templateBlockName
    IN  [file |-> file, block |-> block]

Register(pattern, V, opts) ==
    /\ phase = "setup"
    /\ mux[pattern].kind = "none"
    /\ LET t == RegisterTemplate(V, opts)
       IN  mux' = [mux EXCEPT ![pattern] =
                     [NoRoute EXCEPT !.kind = "Register", !.vtype = V, !.opts = opts,
                                     !.file = t.file, !.block = t.block,
                                     !.handler = WrapMiddleware(ApplyOptions(opts).middleware,
                                                                ViewHandler)]]
    /\ UNCHANGED <<phase, req, nextView, loadVars, parseVars, appVars, hxVars, mixVars>>

\* SmartRegister: both specs are parsed at registration.
SmartRegister(pattern, V, fullTemplateSpec, fragmentTemplateSpec, opts) ==
    /\ phase = "setup"
    /\ mux[pattern].kind = "none"
    /\ LET full == ParseTemplateSpec(fullTemplateSpec)
           frag == ParseTemplateSpec(fragmentTemplateSpec)
       IN  mux' = [mux EXCEPT ![pattern] =
                     [NoRoute EXCEPT !.kind = "SmartRegister", !.vtype = V, !.opts = opts,
                                     !.fullSpec = fullTemplateSpec,
                                     !.fragSpec = fragmentTemplateSpec,
                                     !.file = full.fileName, !.block = full.blockName,
                                     !.fragFile = frag.fileName,
                                     !.fragBlock = frag.blockName,
                                     !.handler = WrapMiddleware(ApplyOptions(opts).middleware,
                                                                ViewHandler)]]
    /\ UNCHANGED <<phase, req, nextView, loadVars, parseVars, appVars, hxVars, mixVars>>

\* MuxBuilder.Page: the file name falls back to typeNameFromValue(maker()), the
\* block name is the option's as it is.
PageTemplate(opts) ==
    LET o == ApplyOptions(opts)
        fallback == typeNameFromValue(FALSE)
    IN  IF o.templateFileName = <<>>
        THEN [panics |-> fallback.panics, file |-> fallback.name, block |-> o.templateBlockName]
        ELSE [panics |-> FALSE, file |-> o.templateFileName, block |-> o.templateBlockName]

Page(pattern, V, opts) ==
    /\ phase = "setup"
    /\ mux[pattern].kind = "none"
    /\ LET t == PageTemplate(opts)
       IN  IF t.panics
           THEN /\ phase' = "panicked"
                /\ mux' = mux
           ELSE /\ phase' = phase
                /\ mux' = [mux EXCEPT ![pattern] =
                             [NoRoute EXCEPT !.kind = "Page", !.vtype = V, !.opts = opts,
                                             !.file = t.file, !.block = t.block,
                                             !.handler =
                                                 WrapMiddleware(ApplyOptions(opts).middleware,
                                                                ViewHandler)]]
    /\ UNCHANGED <<req, nextView, loadVars, parseVars, appVars, hxVars, mixVars>>

\* RegisterGroup: the group is instantiated at once and its own mux is mounted
\* under the prefix, which gets a trailing "/" unless it has one.
GroupPtr    == [kind |-> "ptr", name |-> <<"G">>]
GroupStruct == [kind |-> "struct", name |-> <<"G">>]
GroupTypes  == {GroupPtr, GroupStruct}

MountPattern(prefix) == IF prefix = "/x" THEN "/x/" ELSE prefix

RegisterGroup(prefix, G) ==
    /\ phase = "setup"
    /\ mux[prefix].kind = "none"
    /\ IF newInstancePanics(G)
       THEN phase' = "panicked" /\ mux' = mux
       ELSE /\ phase' = phase
            /\ mux' = [mux EXCEPT ![prefix] =
                         [NoRoute EXCEPT !.kind = "Group", !.vtype = G,
                                         !.mount = MountPattern(prefix)]]
    /\ UNCHANGED <<req, nextView, loadVars, parseVars, appVars, hxVars, mixVars>>

\* Route setup is over and the server starts serving.
StartServing ==
    /\ phase = "setup"
    /\ \E p \in Patterns : mux[p].kind # "none"
    /\ phase' = "serving"
    /\ UNCHANGED <<mux, req, nextView, loadVars, parseVars, appVars, hxVars, mixVars>>

(* --------------------------- request handling -------------------------- *)
Reqs == 1..MaxReqs

RenderErrors == {"rerr"}        \* errors RenderTemplate can return

\* err.Error()
ErrorText(err) ==
    CASE err = "e1"   -> "load failed"
      [] err = "e2"   -> "not found"
      [] err = "rerr" -> "template load error"
      [] OTHER        -> ""

StatusInternalServerError == 500

\* One write to the http.ResponseWriter, tagged with who wrote it.
\* http.Error(w, msg, code), called by the registrar's handler:
HttpError(msg, code) == [by |-> "registrar", status |-> code, body |-> msg]
\* what a view's Load writes when it handles the response itself (a redirect):
ViewWrite == [by |-> "view", status |-> 302, body |-> ""]
\* what a successful render writes:
RenderWrite == [by |-> "render", status |-> 200, body |-> "page"]

\* log.Printf of a load or render error; ident tells whether the line carries
\* the template identity file[block].
LogLine(kind, ident, file, block, err) ==
    [kind |-> kind, ident |-> ident, file |-> file, block |-> block, err |-> err]

NoView == [id |-> 0, loaded |-> FALSE, frag |-> FALSE]

IdleReq ==
    [pc |-> "idle", pattern |-> "", view |-> NoView, err |-> NoErr, finished |-> FALSE,
     renderErr |-> NoErr, resp |-> <<>>, renders |-> <<>>, logs |-> <<>>,
     entered |-> <<>>, rest |-> <<>>]

\* newInstance[T](): a new zero value behind a pointer; id is its address.
newInstance_shared(T, id) == [id |-> 1, loaded |-> FALSE, frag |-> FALSE]

newInstance(T, id) == [id |-> id, loaded |-> FALSE, frag |-> FALSE]

\* The arguments of one app.RenderTemplate(w, file, block, view) call; loaded
\* records whether Load had populated the view when the call was made.
RenderCall(file, block, view) ==
    [file |-> file, block |-> block, view |-> view.id, loaded |-> view.loaded]

\* The mux hands a request to the handler registered at pattern, whose outermost
\* function is a middleware.
Dispatch(r, pattern) ==
    /\ phase = "serving"
    /\ req[r].pc = "idle"
    /\ \A r2 \in 1..(r - 1) : req[r2].pc # "idle"
    /\ mux[pattern].kind \in {"Register", "SmartRegister", "Page"}
    /\ mux[pattern].handler # ViewHandler
    /\ req' = [req EXCEPT ![r] = [IdleReq EXCEPT !.pc = "mw", !.pattern = pattern,
                                                 !.rest = mux[pattern].handler]]
    /\ UNCHANGED <<phase, mux, nextView, loadVars, parseVars, appVars, hxVars, mixVars>>

\* The request enters the next middleware, which either calls next.ServeHTTP or
\* answers the request itself.
MiddlewareEnter(r, callsNext) ==
    /\ phase = "serving"
    /\ req[r].pc = "mw"
    /\ req[r].rest # ViewHandler
    /\ req' = [req EXCEPT ![r] =
                 [@ EXCEPT !.entered = Append(@, Head(req[r].rest)),
                           !.rest = IF callsNext THEN Tail(@) ELSE <<>>,
                           !.pc = IF callsNext THEN "mw" ELSE "done"]]
    /\ UNCHANGED <<phase, mux, nextView, loadVars, parseVars, appVars, hxVars, mixVars>>

\* The handler is entered: it creates the view and calls view.Load. Requests are
\* numbered in their order of arrival; their handlers then run interleaved.
\* (A route without middleware is entered straight from the mux; one with
\* middleware once the innermost middleware has called next.ServeHTTP.)
HandlerStart(r, pattern) ==
    /\ phase = "serving"
    /\ mux[pattern].kind \in {"Register", "SmartRegister", "Page"}
    /\ \/ /\ req[r].pc = "idle"
          /\ \A r2 \in 1..(r - 1) : req[r2].pc # "idle"
          /\ mux[pattern].handler = ViewHandler
       \/ /\ req[r].pc = "mw"
          /\ req[r].pattern = pattern
          /\ req[r].rest = ViewHandler
    /\ IF newInstancePanics(mux[pattern].vtype)
       THEN \* the panic unwinds the handler; net/http aborts this request
            /\ req' = [req EXCEPT ![r] = [IdleReq EXCEPT !.pc = "panicked",
                                                         !.pattern = pattern,
                                                         !.entered = Append(req[r].entered, "view")]]
            /\ nextView' = nextView
       ELSE /\ req' = [req EXCEPT ![r] = [IdleReq EXCEPT !.pc = "loading", !.pattern = pattern,
                                           !.view = newInstance(mux[pattern].vtype, nextView),
                                           !.entered = Append(req[r].entered, "view")]]
            /\ nextView' = nextView + 1
    /\ UNCHANGED <<phase, mux, loadVars, parseVars, appVars, hxVars, mixVars>>

\* --- the handler Register builds (mixins.go 363-384), from Load's return on
Register_renderArgsSwapped(route, q) ==
    [q EXCEPT !.pc = "rendering",
              !.renders = Append(@, RenderCall(route.block, route.file, q.view))]
Register_rendersOnFinished(route, q) ==
    IF q.err # NoErr
    THEN [q EXCEPT !.pc = "done",
                   !.logs = Append(@, LogLine("load", TRUE, route.file, route.block, q.err)),
                   !.resp = Append(@, HttpError(ErrorText(q.err), StatusInternalServerError))]
    ELSE [q EXCEPT !.pc = "rendering",
                   !.renders = Append(@, RenderCall(route.file, route.block, q.view))]
Register_rendersOnError(route, q) ==
    IF q.finished
    THEN [q EXCEPT !.pc = "done"]
    ELSE [q EXCEPT !.pc = "rendering",
                   !.renders = Append(@, RenderCall(route.file, route.block, q.view))]

RegisterRender(route, q) ==
    [q EXCEPT !.pc = "rendering",
              !.renders = Append(@, RenderCall(route.file, route.block, q.view))]

RegisterAfterLoad(route, q) ==
    IF q.finished
    THEN [q EXCEPT !.pc = "done"]
    ELSE IF q.err # NoErr
    THEN [q EXCEPT !.pc = "done",
                   !.logs = Append(@, LogLine("load", TRUE, route.file, route.block, q.err)),
                   !.resp = Append(@, HttpError(ErrorText(q.err), StatusInternalServerError))]
    ELSE RegisterRender(route, q)

RegisterAfterRender_echoesError(route, q, renderErr) ==
    IF renderErr # NoErr
    THEN [q EXCEPT !.pc = "done",
                   !.logs = Append(@, LogLine("render", TRUE, route.file, route.block, renderErr)),
                   !.resp = Append(@, HttpError(ErrorText(renderErr),
                                                StatusInternalServerError))]
    ELSE [q EXCEPT !.pc = "done"]

RegisterAfterRender(route, q, renderErr) ==
    IF renderErr # NoErr
    THEN [q EXCEPT !.pc = "done",
                   !.logs = Append(@, LogLine("render", TRUE, route.file, route.block, renderErr)),
                   !.resp = Append(@, HttpError("Template render error",
                                                StatusInternalServerError))]
    ELSE [q EXCEPT !.pc = "done"]

\* --- the handler SmartRegister builds (mixins.go 484-507)
\* Choose template based on HTMX, then render.
SmartRender_alwaysFull(route, q) ==
    [q EXCEPT !.pc = "rendering",
              !.renders = Append(@, RenderCall(route.file, route.block, q.view))]

SmartRender(route, q) ==
    IF q.view.frag     \* view.ShouldRenderFragment()
    THEN [q EXCEPT !.pc = "rendering",
                   !.renders = Append(@, RenderCall(route.fragFile, route.fragBlock, q.view))]
    ELSE [q EXCEPT !.pc = "rendering",
                   !.renders = Append(@, RenderCall(route.file, route.block, q.view))]

SmartAfterLoad_errorFirst(route, q) ==
    IF q.err # NoErr
    THEN [q EXCEPT !.pc = "done",
                   !.logs = Append(@, LogLine("load", FALSE, <<>>, <<>>, q.err)),
                   !.resp = Append(@, HttpError(ErrorText(q.err), StatusInternalServerError))]
    ELSE IF q.finished
    THEN [q EXCEPT !.pc = "done"]
    ELSE SmartRender(route, q)

SmartAfterLoad(route, q) ==
    IF q.finished
    THEN [q EXCEPT !.pc = "done"]
    ELSE IF q.err # NoErr
    THEN [q EXCEPT !.pc = "done",
                   !.logs = Append(@, LogLine("load", FALSE, <<>>, <<>>, q.err)),
                   !.resp = Append(@, HttpError(ErrorText(q.err), StatusInternalServerError))]
    ELSE SmartRender(route, q)

SmartAfterRender(route, q, renderErr) ==
    IF renderErr # NoErr
    THEN [q EXCEPT !.pc = "done",
                   !.resp = Append(@, HttpError("Template render error",
                                                StatusInternalServerError))]
    ELSE [q EXCEPT !.pc = "done"]

\* --- the handler MuxBuilder.Page builds (muxbuilder.go 31-45)
PageAfterLoad(route, q) ==
    IF q.finished
    THEN [q EXCEPT !.pc = "done"]
    ELSE IF q.err # NoErr
    THEN [q EXCEPT !.pc = "done",
                   !.resp = Append(@, HttpError(ErrorText(q.err), StatusInternalServerError))]
    ELSE [q EXCEPT !.pc = "rendering",
                   !.renders = Append(@, RenderCall(route.file, route.block, q.view))]

\* the value RenderTemplate returns is dropped
PageAfterRender(route, q, renderErr) == [q EXCEPT !.pc = "done"]

AfterLoad(route, q) ==
    CASE route.kind = "Register"      -> RegisterAfterLoad(route, q)
      [] route.kind = "SmartRegister" -> SmartAfterLoad(route, q)
      [] route.kind = "Page"          -> PageAfterLoad(route, q)

AfterRender(route, q, renderErr) ==
    CASE route.kind = "Register"      -> RegisterAfterRender(route, q, renderErr)
      [] route.kind = "SmartRegister" -> SmartAfterRender(route, q, renderErr)
      [] route.kind = "Page"          -> PageAfterRender(route, q, renderErr)

\* view.Load returns (err, finished) and the handler goes on to its return or to
\* its RenderTemplate call. Load has populated the view; frag is what the view's
\* ShouldRenderFragment() answers from now on (SmartRegister's views only); a
\* Load that reports finished may have written the response itself.
LoadReturns(r, err, finished, frag, wrote) ==
    /\ phase = "serving"
    /\ req[r].pc = "loading"
    /\ LET route == mux[req[r].pattern]
           q == [req[r] EXCEPT !.err = err, !.finished = finished,
                               !.view = [@ EXCEPT !.loaded = TRUE, !.frag = frag],
                               !.resp = IF wrote THEN Append(@, ViewWrite) ELSE @]
       IN  /\ frag => route.kind = "SmartRegister"
           /\ wrote => finished
           /\ req' = [req EXCEPT ![r] = AfterLoad(route, q)]
    /\ UNCHANGED <<phase, mux, nextView, loadVars, parseVars, appVars, hxVars, mixVars>>

\* NewApp(ctx, templates): RenderTemplateFunc is left nil.
NewApp(ctx, templates) ==
    [Context |-> ctx, Templates |-> templates, RenderTemplateFunc |-> "nil"]

\* The App as application code may hand it over: as NewApp made it, or with a
\* render function of its own installed.
Apps ==
    {NewApp("ctx", "templates"),
     [NewApp("ctx", "templates") EXCEPT !.RenderTemplateFunc = "custom"]}

\* The App after a call of App.RenderTemplate: the method reads
\* RenderTemplateFunc and Templates and assigns no field.
RenderTemplateApp_cachesRenderFunc(a) ==
    IF a.RenderTemplateFunc = "nil" THEN [a EXCEPT !.RenderTemplateFunc = "default"] ELSE a

RenderTemplateApp(a) == a

\* App.RenderTemplate returns renderErr (nil after the page was written) and the
\* handler finishes.
RenderReturns(r, renderErr) ==
    /\ phase = "serving"
    /\ req[r].pc = "rendering"
    /\ LET route == mux[req[r].pattern]
           q == [req[r] EXCEPT !.renderErr = renderErr,
                               !.resp = IF renderErr = NoErr THEN Append(@, RenderWrite) ELSE @]
       IN  req' = [req EXCEPT ![r] = AfterRender(route, q, renderErr)]
    /\ app' = RenderTemplateApp(app)
    /\ UNCHANGED <<phase, mux, nextView, loadVars, parseVars, hxVars, mixVars>>

(* ------------------------------ WithHtmx ------------------------------- *)
HeaderNames ==
    {"HX-Request", "HX-Boosted", "HX-Target", "HX-Trigger",
     "HX-Trigger-Name", "HX-Current-URL", "HX-Prompt"}

\* A request's headers: name -> value, "" for a header the request lacks.
NoHeaders == [n \in HeaderNames |-> ""]
MarkerValues == {"", "true", "false", "TRUE"}

HtmxRequests ==
    {[NoHeaders EXCEPT !["HX-Request"] = a, !["HX-Boosted"] = b,
                       !["HX-Target"] = t, !["HX-Trigger"] = g] :
        a \in MarkerValues, b \in MarkerValues, t \in {"", "#list"}, g \in {"", "btn"}}

\* r.Header.Get(name)
Get(header, name) == header[name]

ZeroWithHtmx ==
    [IsHtmx |-> FALSE, IsBoosted |-> FALSE, Target |-> "", Trigger |-> "",
     TriggerName |-> "", CurrentURL |-> "", Prompt |-> ""]

\* (p *WithHtmx) Load: the fields of p after the call
WithHtmxLoad(p, header) ==
    [p EXCEPT !.IsHtmx      = (Get(header, "HX-Request") = "true"),
              !.IsBoosted   = (Get(header, "HX-Boosted") = "true"),
              !.Target      = Get(header, "HX-Target"),
              !.Trigger     = Get(header, "HX-Trigger"),
              !.TriggerName = Get(header, "HX-Trigger-Name"),
              !.CurrentURL  = Get(header, "HX-Current-URL"),
              !.Prompt      = Get(header, "HX-Prompt")]

ShouldRenderFragment_ignoresBoosted(p) == p.IsHtmx

ShouldRenderFragment(p) == p.IsHtmx /\ ~p.IsBoosted

\* stage: "idle" (no request), "request" (p not loaded yet), "loaded";
\* resent: the request is an earlier one sent again with the boosted marker
\* added, and prev is what ShouldRenderFragment answered for the earlier one.
NoHtmx ==
    [stage |-> "idle", header |-> NoHeaders, p |-> ZeroWithHtmx,
     resent |-> FALSE, prev |-> FALSE]

HtmxRequest(header) == [NoHtmx EXCEPT !.stage = "request", !.header = header]

\* The handler's view embeds WithHtmx and its Load calls p.Load(r, w, app).
HtmxLoad ==
    /\ hx.stage = "request"
    /\ hx' = [hx EXCEPT !.stage = "loaded", !.p = WithHtmxLoad(hx.p, hx.header)]
    /\ UNCHANGED <<loadVars, parseVars, routeVars, appVars, mixVars>>

\* The client sends the same request again, now with HX-Boosted: true; the
\* handler invocation serving it has a WithHtmx of its own.
AddBoosted ==
    /\ hx.stage = "loaded"
    /\ ~hx.resent
    /\ hx' = [HtmxRequest([hx.header EXCEPT !["HX-Boosted"] = "true"])
                 EXCEPT !.resent = TRUE, !.prev = ShouldRenderFragment(hx.p)]
    /\ UNCHANGED <<loadVars, parseVars, routeVars, appVars, mixVars>>

(* --------------------------- WithPagination ---------------------------- *)
\* Go's int: two's complement of IntBits bits; arithmetic wraps silently.
MaxInt == 2 ^ (IntBits - 1) - 1
MinInt == -(2 ^ (IntBits - 1))
WrapInt(x) == ((x - MinInt) % (2 ^ IntBits)) + MinInt

\* a / b for b > 0: Go's integer division truncates toward zero
Quo(a, b) == IF a >= 0 THEN a \div b ELSE -((-a) \div b)

\* What r.URL.Query().Get(name) holds: nothing ("absent"), text that is no
\* number ("text"), a decimal number within int's range ("int", value n), or a
\* decimal number out of int's range ("huge").
QueryAbsent == [kind |-> "absent", n |-> 0]
QueryText   == [kind |-> "text", n |-> 0]
QueryHuge   == [kind |-> "huge", n |-> 0]
QueryInt(n) == [kind |-> "int", n |-> n]

\* strconv.Atoi(val)
Atoi(val) ==
    IF val.kind = "int" THEN [n |-> val.n, err |-> FALSE] ELSE [n |-> 0, err |-> TRUE]

intQueryParam(query, name, defaultVal) ==
    LET val == query[name]
    IN  IF val.kind = "absent" THEN defaultVal
        ELSE IF Atoi(val).err THEN defaultVal
        ELSE Atoi(val).n

ZeroWithPagination ==
    [CurrentPage |-> 0, PageSize |-> 0, TotalCount |-> 0,
     HasPrevPage |-> FALSE, HasNextPage |-> FALSE, Pages |-> <<>>]

\* (p *WithPagination) Load: the fields of p after the call
WithPaginationLoad(p, query) ==
    LET page == intQueryParam(query, "page", 0)
        size == intQueryParam(query, "pageSize", 20)
    IN  [p EXCEPT !.CurrentPage = IF page < 0 THEN 0 ELSE page,
                  !.PageSize    = IF size < 1 THEN 20 ELSE IF size > 100 THEN 100 ELSE size]

\* for i := start; i < end; i++ { p.Pages = append(p.Pages, i) }
PageRange(start, end) ==
    IF start < end THEN [i \in 1..(end - start) |-> start + i - 1] ELSE <<>>

EvalPages_unclamped(p) ==
    IF p.TotalCount <= 0 \/ p.PageSize <= 0 THEN [p EXCEPT !.Pages = <<>>]
    ELSE LET start == WrapInt(p.CurrentPage - 2)
         IN  [p EXCEPT !.Pages = PageRange(start, WrapInt(start + 5))]

\* (p *WithPagination) EvalPages: the fields of p after the call
EvalPages(p) ==
    IF p.TotalCount <= 0 \/ p.PageSize <= 0 THEN [p EXCEPT !.Pages = <<>>]
    ELSE LET totalPages == Quo(WrapInt(p.TotalCount + p.PageSize - 1), p.PageSize)
             start0 == WrapInt(p.CurrentPage - 2)
             start1 == IF start0 < 0 THEN 0 ELSE start0
             end0   == WrapInt(start1 + 5)
             end    == IF end0 > totalPages THEN totalPages ELSE end0
             start2 == IF end0 > totalPages THEN WrapInt(end - 5) ELSE start1
             start  == IF end0 > totalPages /\ start2 < 0 THEN 0 ELSE start2
         IN  IF totalPages <= 1 THEN [p EXCEPT !.Pages = <<>>]
             ELSE [p EXCEPT !.Pages = PageRange(start, end)]

\* (p *WithPagination) SetTotal
SetTotal(p, total, hasMore) ==
    EvalPages([p EXCEPT !.TotalCount = total, !.HasNextPage = hasMore,
                        !.HasPrevPage = (p.CurrentPage > 0)])

\* (p *WithPagination) Offset
Offset(p) == WrapInt(p.CurrentPage * p.PageSize)

NoQuery == [name \in {"page", "pageSize"} |-> QueryAbsent]

PageQueries ==
    {QueryAbsent, QueryText, QueryHuge} \cup
    {QueryInt(n) : n \in {-1, 0, 1, 2, 3, MaxInt \div 100, MaxInt \div 100 + 1, MaxInt}}

SizeQueries ==
    {QueryAbsent, QueryText} \cup
    {QueryInt(n) : n \in {-5, 0, 1, 20, 100, 101, MaxInt}}

Totals == {-1, 0, 1, 20, 21, 50, 100, 101}

\* field values a caller may store before calling EvalPages itself
FieldSamples == {MinInt, -1, 0, 1, 2, 5, 20, MaxInt - 1, MaxInt}

\* stage: "request" (p is the zero value), "loaded" (Load returned),
\* "literal" (fields stored by the caller), "evaluated" (EvalPages returned)
PaginationLoad ==
    /\ pg.stage = "request"
    /\ pg' = [pg EXCEPT !.stage = "loaded", !.p = WithPaginationLoad(pg.p, pg.query)]
    /\ UNCHANGED <<loadVars, parseVars, routeVars, appVars, hxVars, bp, au, hr, gm, bld>>

PaginationSetTotal(total, hasMore) ==
    /\ pg.stage = "loaded"
    /\ pg' = [pg EXCEPT !.stage = "evaluated", !.p = SetTotal(pg.p, total, hasMore)]
    /\ UNCHANGED <<loadVars, parseVars, routeVars, appVars, hxVars, bp, au, hr, gm, bld>>

PaginationEvalPages ==
    /\ pg.stage = "literal"
    /\ pg' = [pg EXCEPT !.stage = "evaluated", !.p = EvalPages(pg.p)]
    /\ UNCHANGED <<loadVars, parseVars, routeVars, appVars, hxVars, bp, au, hr, gm, bld>>

(* ------------------------------ BasePage ------------------------------- *)
MaxLoads == 2       \* Load calls made on one BasePage

DefaultBodyClass ==
    "h-screen flex flex-col bg-gray-50 dark:bg-gray-900 text-gray-900 dark:text-gray-100"

\* The BasePage values a page is constructed with before its loaders run.
BasePages ==
    [Title : {"", "Games"}, BodyClass : {"", "p-4", DefaultBodyClass},
     ActiveTab : {"", "games"}, CustomHeader : BOOLEAN, DisableSplashScreen : BOOLEAN,
     SplashTitle : {"", "Loading"}, SplashMessage : {""}, BodyDataAttributes : {""}]

BasePageLoad_alwaysDefault(p) ==
    [p |-> [p EXCEPT !.BodyClass = DefaultBodyClass], err |-> NoErr, finished |-> FALSE]

\* (p *BasePage) Load: the fields of p after the call and the values returned
BasePageLoad(p) ==
    [p |-> IF p.BodyClass = "" THEN [p EXCEPT !.BodyClass = DefaultBodyClass] ELSE p,
     err |-> NoErr, finished |-> FALSE]

\* One more p.Load(r, w, vc); bp.hist keeps p as constructed and after each call.
BasePageLoadCall ==
    /\ bp.stage = "live"
    /\ Len(bp.hist) <= MaxLoads
    /\ LET res == BasePageLoad(bp.hist[Len(bp.hist)])
       IN  bp' = [bp EXCEPT !.hist = Append(@, res.p),
                            !.rets = Append(@, Returned(res.err, res.finished))]
    /\ UNCHANGED <<loadVars, parseVars, routeVars, appVars, hxVars, pg, au, hr, gm, bld>>

(* ------------------------------ WithAuth ------------------------------- *)
ZeroWithAuth ==
    [LoggedInUserId |-> "", Username |-> "", IsLoggedIn |-> FALSE, IsOwner |-> FALSE]

\* What profile["username"] holds: nothing, a value that is no string, a string.
NoUsername        == [kind |-> "absent", s |-> ""]
NumberUsername    == [kind |-> "number", s |-> ""]
StringUsername(s) == [kind |-> "string", s |-> s]

\* An AuthProvider: the id GetLoggedInUserId returns for the request, and the
\* (AuthUser, error) GetUserById returns; user is "nil" or a user with a profile.
Providers ==
    [id : {"", "u1", "u2"}, user : {"nil", "user"},
     err : {NoErr, "lookup failed"},
     username : {NoUsername, NumberUsername, StringUsername("alice")}]

GetLoggedInUserId(provider) == provider.id
GetUserById(provider, id) == [user |-> provider.user, err |-> provider.err]

CallGetLoggedInUserId(provider) ==
    [fn |-> "GetLoggedInUserId", arg |-> "r", ret |-> GetLoggedInUserId(provider)]
CallGetUserById(provider, id) ==
    [fn |-> "GetUserById", arg |-> id, ret |-> GetUserById(provider, id).user]

\* username, ok := profile["username"].(string)
UsernameFrom(p, provider) ==
    IF provider.username.kind = "string" THEN [p EXCEPT !.Username = provider.username.s]
    ELSE p

LoadWithAuth_failsWhenAnonymous(p, provider) ==
    LET id == GetLoggedInUserId(provider)
        p1 == [p EXCEPT !.LoggedInUserId = id, !.IsLoggedIn = (id # "")]
    IN  IF id = ""
        THEN [p |-> p1, err |-> "not logged in", finished |-> TRUE,
              log |-> <<CallGetLoggedInUserId(provider)>>]
        ELSE LET got == GetUserById(provider, id)
             IN  [p |-> IF got.err = NoErr /\ got.user # "nil"
                        THEN UsernameFrom(p1, provider) ELSE p1,
                  err |-> NoErr, finished |-> FALSE,
                  log |-> <<CallGetLoggedInUserId(provider), CallGetUserById(provider, id)>>]

LoadWithAuth_alwaysLooksUp(p, provider) ==
    LET id  == GetLoggedInUserId(provider)
        p1  == [p EXCEPT !.LoggedInUserId = id, !.IsLoggedIn = (id # "")]
        got == GetUserById(provider, id)
    IN  [p |-> IF got.err = NoErr /\ got.user # "nil" THEN UsernameFrom(p1, provider) ELSE p1,
         err |-> NoErr, finished |-> FALSE,
         log |-> <<CallGetLoggedInUserId(provider), CallGetUserById(provider, id)>>]

\* (p *WithAuth) LoadWithAuth: the fields of p after the call, the values
\* returned, and the provider calls made, in order.
LoadWithAuth(p, provider) ==
    LET id == GetLoggedInUserId(provider)
        p1 == [p EXCEPT !.LoggedInUserId = id, !.IsLoggedIn = (id # "")]
    IN  IF p1.IsLoggedIn
        THEN LET got == GetUserById(provider, p1.LoggedInUserId)
             IN  [p |-> IF got.err = NoErr /\ got.user # "nil"
                        THEN UsernameFrom(p1, provider) ELSE p1,
                  err |-> NoErr, finished |-> FALSE,
                  log |-> <<CallGetLoggedInUserId(provider),
                            CallGetUserById(provider, p1.LoggedInUserId)>>]
        ELSE [p |-> p1, err |-> NoErr, finished |-> FALSE,
              log |-> <<CallGetLoggedInUserId(provider)>>]

\* What the LoaderFunc built by AuthLoader(auth, provider) returns when called.
AuthLoader(auth, provider) ==
    LET res == LoadWithAuth(auth, provider)
    IN  [isNil |-> FALSE, err |-> res.err, finished |-> res.finished]

\* The WithAuth values a page holds before its auth is loaded.
AuthPages ==
    {ZeroWithAuth,
     [LoggedInUserId |-> "u9", Username |-> "bob", IsLoggedIn |-> TRUE, IsOwner |-> TRUE]}

\* page.LoadWithAuth(r, provider), called by the page's own Load.
LoadWithAuthCall ==
    /\ au.stage = "live"
    /\ au.via = "direct"
    /\ ~au.ran
    /\ LET res == LoadWithAuth(au.p, au.provider)
       IN  au' = [au EXCEPT !.ran = TRUE, !.p = res.p, !.log = res.log,
                            !.ret = Returned(res.err, res.finished)]
    /\ UNCHANGED <<loadVars, parseVars, routeVars, appVars, hxVars, pg, bp, hr, gm, bld>>

\* The iteration of LoadAll's range loop that reaches the AuthLoader entry.
AuthLoaderIter ==
    /\ au.stage = "live"
    /\ au.via = "chain"
    /\ ~ret.returned
    /\ li = au.pos
    /\ li <= Len(loaders)
    /\ LET res == LoadWithAuth(au.p, au.provider)
           l   == AuthLoader(au.p, au.provider)
       IN  /\ au' = [au EXCEPT !.ran = TRUE, !.p = res.p, !.log = res.log,
                               !.ret = Returned(res.err, res.finished)]
           /\ calls' = Append(calls, li)
           /\ IF StopsChain(l.err, l.finished)
              THEN /\ ret' = Returned(l.err, l.finished)
                   /\ li' = li
              ELSE /\ li' = li + 1
                   /\ ret' = ret
    /\ UNCHANGED <<loaders, parseVars, routeVars, appVars, hxVars, pg, bp, hr, gm, bld>>

\* The iterations of the same loop at the other loaders.
OtherLoaderIter ==
    /\ au.stage = "live"
    /\ au.via = "chain"
    /\ li # au.pos
    /\ LoadAllIter

AuthChainEnd ==
    /\ au.stage = "live"
    /\ au.via = "chain"
    /\ LoadAllEnd

(* ----------------------------- HtmxResponse ---------------------------- *)
\* A header value is a sequence of tokens; header[k] is the list of values
\* stored under k (http.Header is map[string][]string), <<>> if there is none.
ResponseHeaderNames ==
    {"Content-Type", "HX-Trigger", "HX-Trigger-After-Settle", "HX-Trigger-After-Swap",
     "HX-Redirect", "HX-Location", "HX-Refresh", "HX-Push-Url", "HX-Replace-Url",
     "HX-Retarget", "HX-Reswap", "HX-Reselect"}

\* The ResponseWriter a handler is given, with a Content-Type already set.
NewResponse ==
    [header |-> [k \in ResponseHeaderNames |-> IF k = "Content-Type" THEN <<(<<"text/html">>)>>
                                       ELSE <<>>],
     wroteHeader |-> FALSE, status |-> 0]

\* w.Header().Set(key, value)
HeaderSet(w, key, value) == [w EXCEPT !.header[key] = <<value>>]

\* w.WriteHeader(code)
WriteHeader(w, code) ==
    IF w.wroteHeader THEN w ELSE [w EXCEPT !.wroteHeader = TRUE, !.status = code]

\* A value json.Marshal cannot encode (a channel, a func).
Unmarshalable == "chan"

\* json.Marshal(map[string]any{key: data}) for a number or string literal data
MarshalObject(key, data) ==
    IF data = Unmarshalable THEN [err |-> TRUE, json |-> <<>>]
    ELSE [err |-> FALSE, json |-> <<"{", "\"", key, "\"", ":", data, "}">>]

Trigger(w, event) == HeaderSet(w, "HX-Trigger", <<event>>)

TriggerWithData(w, event, data) ==
    LET m == MarshalObject(event, data)
    IN  IF ~m.err THEN HeaderSet(w, "HX-Trigger", m.json) ELSE w

TriggerAfterSettle(w, event) == HeaderSet(w, "HX-Trigger-After-Settle", <<event>>)
TriggerAfterSwap(w, event)   == HeaderSet(w, "HX-Trigger-After-Swap", <<event>>)
Redirect(w, url)             == HeaderSet(w, "HX-Redirect", <<url>>)
Location(w, url)             == HeaderSet(w, "HX-Location", <<url>>)

\* LocationWithContext(spec) for spec = map[string]any{"path": path}
LocationWithContext(w, path) ==
    LET m == MarshalObject("path", path)
    IN  IF ~m.err THEN HeaderSet(w, "HX-Location", m.json) ELSE w

Refresh(w)            == HeaderSet(w, "HX-Refresh", <<"true">>)
PushURL(w, url)       == HeaderSet(w, "HX-Push-Url", <<url>>)
ReplaceURL(w, url)    == HeaderSet(w, "HX-Replace-Url", <<url>>)
Retarget(w, selector) == HeaderSet(w, "HX-Retarget", <<selector>>)
Reswap(w, style)      == HeaderSet(w, "HX-Reswap", <<style>>)
Reselect(w, selector) == HeaderSet(w, "HX-Reselect", <<selector>>)
StopPolling(w)        == WriteHeader(w, 286)

\* One setter invocation: the method and its arguments.
Invoke(fn, a, b) == [fn |-> fn, a |-> a, b |-> b]

SetterInvocations ==
    {Invoke("Trigger", e, "") : e \in {"saved", "closed"}}
    \cup {Invoke("TriggerWithData", "closed", d) : d \in {"1", Unmarshalable}}
    \cup {Invoke("TriggerAfterSettle", "saved", ""), Invoke("TriggerAfterSwap", "saved", "")}
    \cup {Invoke("Redirect", "/login", ""), Invoke("Location", "/games", "")}
    \cup {Invoke("LocationWithContext", p, "") : p \in {"\"/games/1\"", Unmarshalable}}
    \cup {Invoke("Refresh", "", ""), Invoke("PushURL", "/games", ""),
          Invoke("ReplaceURL", "/games", ""), Invoke("Retarget", "#main", ""),
          Invoke("Reswap", "outerHTML", ""), Invoke("Reselect", "#main", ""),
          Invoke("StopPolling", "", "")}

\* The response after the invocation inv on it.
ApplySetter(w, inv) ==
    CASE inv.fn = "Trigger"             -> Trigger(w, inv.a)
      [] inv.fn = "TriggerWithData"     -> TriggerWithData(w, inv.a, inv.b)
      [] inv.fn = "TriggerAfterSettle"  -> TriggerAfterSettle(w, inv.a)
      [] inv.fn = "TriggerAfterSwap"    -> TriggerAfterSwap(w, inv.a)
      [] inv.fn = "Redirect"            -> Redirect(w, inv.a)
      [] inv.fn = "Location"            -> Location(w, inv.a)
      [] inv.fn = "LocationWithContext" -> LocationWithContext(w, inv.a)
      [] inv.fn = "Refresh"             -> Refresh(w)
      [] inv.fn = "PushURL"             -> PushURL(w, inv.a)
      [] inv.fn = "ReplaceURL"          -> ReplaceURL(w, inv.a)
      [] inv.fn = "Retarget"            -> Retarget(w, inv.a)
      [] inv.fn = "Reswap"              -> Reswap(w, inv.a)
      [] inv.fn = "Reselect"            -> Reselect(w, inv.a)
      [] inv.fn = "StopPolling"         -> StopPolling(w)

\* The next setter call on response i; hr.changed[i] collects, per call, the
\* headers whose stored values differ after it.
HtmxResponseCall(i) ==
    /\ hr.stage = "live"
    /\ hr.todo[i] # <<>>
    /\ LET inv   == Head(hr.todo[i])
           after == ApplySetter(hr.w[i], inv)
       IN  hr' = [hr EXCEPT !.w[i] = after,
                            !.todo[i] = Tail(@),
                            !.changed[i] = Append(@, {k \in ResponseHeaderNames :
                                                after.header[k] # hr.w[i].header[k]})]
    /\ UNCHANGED <<loadVars, parseVars, routeVars, appVars, hxVars, pg, bp, au, gm, bld>>

(* ------------------------------ MuxBuilder ----------------------------- *)
MaxBuilderCalls == 3    \* Use, Page and Handler calls made on one builder

BuilderPatterns   == {"/a", "/b"}
BuilderMiddleware == {"logging", "auth"}     \* what Use is called with
PlainHandler      == <<"handler">>           \* an http.Handler given to Handler

\* &MuxBuilder{app, mux} over a new ServeMux: no pattern has a handler.
NewMuxBuilder == [mux |-> [p \in BuilderPatterns |-> <<>>]]

\* b.Use(mw): the builder after the call
BuilderUse(b, mw) == b

\* b.Page(pattern, maker, opts...): the builder after the call
BuilderPage(b, pattern, opts) ==
    [b EXCEPT !.mux[pattern] = WrapMiddleware(ApplyOptions(opts).middleware, ViewHandler)]

\* b.Handler(pattern, h): the builder after the call
BuilderHandler(b, pattern, h) == [b EXCEPT !.mux[pattern] = h]

\* The option lists Page is called with: a template, with or without middleware.
BuilderPageOpts ==
    {<<TemplateOption(<<"A">>)>>,
     <<TemplateOption(<<"A">>), MiddlewareOption(<<"gzip">>)>>}

MuxBuilderUse(mw) ==
    /\ bld.stage = "setup"
    /\ bld.ncalls < MaxBuilderCalls
    /\ bld' = [bld EXCEPT !.b = BuilderUse(bld.b, mw),
                          !.used = Append(@, mw),
                          !.ncalls = @ + 1]
    /\ UNCHANGED <<loadVars, parseVars, routeVars, appVars, hxVars, pg, bp, au, hr, gm>>

\* bld.usedBefore[pattern] keeps the Use calls made before the route was added.
MuxBuilderPage(pattern, opts) ==
    /\ bld.stage = "setup"
    /\ bld.ncalls < MaxBuilderCalls
    /\ bld.b.mux[pattern] = <<>>
    /\ bld' = [bld EXCEPT !.b = BuilderPage(bld.b, pattern, opts),
                          !.usedBefore[pattern] = bld.used,
                          !.ncalls = @ + 1]
    /\ UNCHANGED <<loadVars, parseVars, routeVars, appVars, hxVars, pg, bp, au, hr, gm>>

MuxBuilderHandler(pattern) ==
    /\ bld.stage = "setup"
    /\ bld.ncalls < MaxBuilderCalls
    /\ bld.b.mux[pattern] = <<>>
    /\ bld' = [bld EXCEPT !.b = BuilderHandler(bld.b, pattern, PlainHandler),
                          !.usedBefore[pattern] = bld.used,
                          !.ncalls = @ + 1]
    /\ UNCHANGED <<loadVars, parseVars, routeVars, appVars, hxVars, pg, bp, au, hr, gm>>

\* b.Build(): the ServeMux is handed to the server.
MuxBuilderBuild ==
    /\ bld.stage = "setup"
    /\ bld' = [bld EXCEPT !.stage = "serving"]
    /\ UNCHANGED <<loadVars, parseVars, routeVars, appVars, hxVars, pg, bp, au, hr, gm>>

\* A request for pattern runs through the functions of the handler registered
\* there, each middleware calling the next.
MuxBuilderServe(pattern) ==
    /\ bld.stage = "serving"
    /\ bld.b.mux[pattern] # <<>>
    /\ ~bld.served[pattern].done
    /\ bld' = [bld EXCEPT !.served[pattern] = [done |-> TRUE, entered |-> bld.b.mux[pattern]]]
    /\ UNCHANGED <<loadVars, parseVars, routeVars, appVars, hxVars, pg, bp, au, hr, gm>>

(* ------------------------------ page groups ---------------------------- *)
MaxGroupReqs == 2   \* requests sent to the root mux, one after the other

\* strings.HasPrefix(s, prefix) and strings.TrimPrefix(s, prefix)
HasPrefix(s, prefix) ==
    Len(prefix) <= Len(s) /\ SubSeq(s, 1, Len(prefix)) = prefix
TrimPrefix(s, prefix) ==
    IF HasPrefix(s, prefix) THEN SubSeq(s, Len(prefix) + 1, Len(s)) ELSE s

\* net/http cleanPath for paths without "." and ".." elements: a leading "/" is
\* added if missing and runs of "/" are collapsed.
RECURSIVE CollapseSlashes(_)
CollapseSlashes(p) ==
    IF Len(p) < 2 THEN p
    ELSE IF p[1] = "/" /\ p[2] = "/" THEN CollapseSlashes(Tail(p))
    ELSE <<p[1]>> \o CollapseSlashes(Tail(p))

cleanPath(p) ==
    IF p = <<>> THEN <<"/">>
    ELSE CollapseSlashes(IF p[1] = "/" THEN p ELSE <<"/">> \o p)

\* A ServeMux is the sequence of its routes. A route's handler is a page, or
\* http.StripPrefix(prefix, sub) in front of the ServeMux sub.
PageRoute(pattern, name) ==
    [pattern |-> pattern, kind |-> "page", name |-> name, prefix |-> <<>>, sub |-> <<>>]
StripPrefixRoute(pattern, prefix, name, sub) ==
    [pattern |-> pattern, kind |-> "strip", name |-> name, prefix |-> prefix, sub |-> sub]

NewServeMux == [panicked |-> FALSE, routes |-> <<>>]

\* mux.Handle(pattern, handler): panics on an empty pattern, on one that does not
\* begin with "/", and on one registered before.
Handle(sm, route) ==
    IF sm.panicked THEN sm
    ELSE IF \/ route.pattern = <<>>
            \/ route.pattern[1] # "/"
            \/ \E i \in 1..Len(sm.routes) : sm.routes[i].pattern = route.pattern
    THEN [sm EXCEPT !.panicked = TRUE]
    ELSE [sm EXCEPT !.routes = Append(@, route)]

\* mountPattern := prefix; if len(prefix) > 0 && prefix[len(prefix)-1] != '/' {...}
mountPattern(prefix) ==
    IF Len(prefix) > 0 /\ prefix[Len(prefix)] # "/" THEN prefix \o <<"/">> ELSE prefix

\* RegisterGroup[G](app, mux, prefix) with groupMux what G's RegisterRoutes built:
\* a panic while the group's routes were built is a panic of the call.
RegisterGroupMount(sm, prefix, name, groupMux) ==
    IF groupMux.panicked THEN [sm EXCEPT !.panicked = TRUE]
    ELSE Handle(sm, StripPrefixRoute(mountPattern(prefix), prefix, name, groupMux.routes))

\* b.Group(prefix, setup) with subMux what setup built on the sub-builder
BuilderGroupMount(sm, prefix, name, subMux) ==
    IF subMux.panicked THEN [sm EXCEPT !.panicked = TRUE]
    ELSE Handle(sm, StripPrefixRoute(mountPattern(prefix), prefix, name, subMux.routes))

MountGroup(via, sm, prefix, name, sub) ==
    IF via = "RegisterGroup" THEN RegisterGroupMount(sm, prefix, name, sub)
    ELSE BuilderGroupMount(sm, prefix, name, sub)

\* The routes of the example: the nested group N has the pages "/" and "/n"; the
\* group G has the same pages and N mounted at q; the root has G mounted at p.
NestedGroupMux ==
    Handle(Handle(NewServeMux, PageRoute(<<"/">>, "N.index")),
           PageRoute(<<"/", "n">>, "N.n"))

GroupMux(via, q) ==
    MountGroup(via,
               Handle(Handle(NewServeMux, PageRoute(<<"/">>, "G.index")),
                      PageRoute(<<"/", "n">>, "G.n")),
               q, "N", NestedGroupMux)

RootMux(via, p, q) == MountGroup(via, NewServeMux, p, "G", GroupMux(via, q))

\* The route of routes that a clean path is dispatched to, 0 if none: the
\* pattern equal to the path, else the longest pattern ending in "/" that the
\* path begins with.
MatchRoute(routes, path) ==
    LET M == {i \in 1..Len(routes) :
                \/ routes[i].pattern = path
                \/ /\ routes[i].pattern[Len(routes[i].pattern)] = "/"
                   /\ HasPrefix(path, routes[i].pattern)}
    IN  IF M = {} THEN 0
        ELSE CHOOSE i \in M : \A j \in M : Len(routes[j].pattern) <= Len(routes[i].pattern)

\* ServeHTTP of the ServeMux called name, for a request with the given path. The
\* result tells how the request ended and lists, outermost first, each ServeMux
\* entered and the path it was given.
RECURSIVE ServeMuxHTTP(_, _, _)
ServeMuxHTTP(name, routes, path) ==
    LET here == <<[mux |-> name, path |-> path]>>
        m    == MatchRoute(routes, path)
    IN  IF cleanPath(path) # path
        THEN [kind |-> "redirect", to |-> cleanPath(path), trail |-> here]
        ELSE IF m = 0
        THEN IF path[Len(path)] # "/" /\ MatchRoute(routes, path \o <<"/">>) # 0
             THEN [kind |-> "redirect", to |-> path \o <<"/">>, trail |-> here]
             ELSE [kind |-> "notfound", to |-> <<>>, trail |-> here]
        ELSE IF routes[m].kind = "page"
        THEN [kind |-> routes[m].name, to |-> <<>>, trail |-> here]
        \* http.StripPrefix(prefix, h)
        ELSE IF routes[m].prefix = <<>>
        THEN LET in == ServeMuxHTTP(routes[m].name, routes[m].sub, path)
             IN  [in EXCEPT !.trail = here \o @]
        ELSE IF Len(TrimPrefix(path, routes[m].prefix)) < Len(path)
        THEN LET in == ServeMuxHTTP(routes[m].name, routes[m].sub,
                                    TrimPrefix(path, routes[m].prefix))
             IN  [in EXCEPT !.trail = here \o @]
        ELSE [kind |-> "notfound", to |-> <<>>, trail |-> here]

GroupPrefixes  == {<<"/", "a">>, <<"/", "a", "/">>}
NestedPrefixes == {<<"/", "b">>, <<"/", "b", "/">>}
GroupPaths     == {<<"/">>, <<"/", "n">>, <<"/", "m">>}     \* paths within a group
GroupVias      == {"RegisterGroup", "MuxBuilder.Group"}

\* Route setup: the groups are mounted, innermost first.
GroupSetup ==
    /\ gm.stage = "setup"
    /\ LET root == RootMux(gm.via, gm.p, gm.q)
       IN  gm' = [gm EXCEPT !.stage = IF root.panicked THEN "panicked" ELSE "serving",
                            !.root = root.routes]
    /\ UNCHANGED <<loadVars, parseVars, routeVars, appVars, hxVars, pg, bp, au, hr, bld>>

\* A request for path, meant for the ServeMux aim.mux with the path aim.path.
Served(path, aim) ==
    [path |-> path, aim |-> aim, res |-> ServeMuxHTTP("root", gm.root, path)]

\* A request for p+r, r a path within G.
GroupRequest(r) ==
    /\ gm.stage = "serving"
    /\ Len(gm.log) < MaxGroupReqs
    /\ gm' = [gm EXCEPT !.log = Append(@, Served(gm.p \o r, [mux |-> "G", path |-> r]))]
    /\ UNCHANGED <<loadVars, parseVars, routeVars, appVars, hxVars, pg, bp, au, hr, bld>>

\* A request for p+q+r, r a path within N.
NestedGroupRequest(r) ==
    /\ gm.stage = "serving"
    /\ Len(gm.log) < MaxGroupReqs
    /\ gm' = [gm EXCEPT !.log = Append(@, Served(gm.p \o gm.q \o r, [mux |-> "N", path |-> r]))]
    /\ UNCHANGED <<loadVars, parseVars, routeVars, appVars, hxVars, pg, bp, au, hr, bld>>

\* The client follows the redirect the last request was answered with.
FollowRedirect ==
    /\ gm.stage = "serving"
    /\ Len(gm.log) \in 1..(MaxGroupReqs - 1)
    /\ gm.log[Len(gm.log)].res.kind = "redirect"
    /\ LET last == gm.log[Len(gm.log)]
       IN  gm' = [gm EXCEPT !.log = Append(@, Served(last.res.to, last.aim))]
    /\ UNCHANGED <<loadVars, parseVars, routeVars, appVars, hxVars, pg, bp, au, hr, bld>>

(* --------------------------- specifications ---------------------------- *)
AppIdle == app = NewApp("ctx", "templates")
HxIdle  == hx = NoHtmx
Unused  == [stage |-> "idle"]
PgIdle  == pg = Unused
BpIdle  == bp = Unused
AuIdle  == au = Unused
HrIdle  == hr = Unused
GmIdle  == gm = Unused
BldIdle == bld = Unused
MixIdle == PgIdle /\ BpIdle /\ AuIdle /\ HrIdle /\ GmIdle /\ BldIdle
LoadIdle  == loaders = <<>> /\ li = 1 /\ calls = <<>> /\ ret = NotReturned
ParseIdle == pspec = <<>> /\ parsed = NotParsed /\ reparsed = NotParsed
RouteIdle == phase = "setup" /\ mux = <<>> /\ req = <<>> /\ nextView = 1

InitLoadAll ==
    /\ loaders \in UNION {[1..n -> LoaderKinds] : n \in 0..MaxLoaders}
    /\ li = 1
    /\ calls = <<>>
    /\ ret = NotReturned
    /\ ParseIdle
    /\ RouteIdle
    /\ AppIdle
    /\ HxIdle
    /\ MixIdle

NextLoadAll == LoadAllIter \/ LoadAllEnd

SpecLoadAll == InitLoadAll /\ [][NextLoadAll]_vars

InitParse ==
    /\ pspec \in StringsUpTo(MaxLen)
    /\ parsed = NotParsed
    /\ reparsed = NotParsed
    /\ LoadIdle
    /\ RouteIdle
    /\ AppIdle
    /\ HxIdle
    /\ MixIdle

NextParse == ParseSpec \/ ReparseFile

SpecParse == InitParse /\ [][NextParse]_vars

Init ==
    /\ phase = "setup"
    /\ mux = [p \in Patterns |-> NoRoute]
    /\ req = [r \in Reqs |-> IdleReq]
    /\ nextView = 1
    /\ LoadIdle
    /\ ParseIdle
    /\ AppIdle
    /\ HxIdle
    /\ MixIdle

Next ==
    \/ \E p \in Patterns, V \in ViewTypes, opts \in OptionLists : Register(p, V, opts)
    \/ \E p \in Patterns, V \in ViewTypes, full \in TemplateSpecs, frag \in TemplateSpecs :
          SmartRegister(p, V, full, frag, <<>>)
    \/ \E p \in Patterns, V \in MakerTypes, opts \in OptionLists : Page(p, V, opts)
    \/ StartServing
    \/ \E r \in Reqs, p \in Patterns : HandlerStart(r, p)
    \/ \E r \in Reqs, err \in Errors \cup {NoErr}, finished \in BOOLEAN,
          frag \in BOOLEAN, wrote \in BOOLEAN : LoadReturns(r, err, finished, frag, wrote)
    \/ \E r \in Reqs, renderErr \in RenderErrors \cup {NoErr} : RenderReturns(r, renderErr)

Spec == Init /\ [][Next]_vars

InitHtmx ==
    /\ hx \in {HtmxRequest(h) : h \in HtmxRequests}
    /\ LoadIdle
    /\ ParseIdle
    /\ MixIdle
    /\ RouteIdle
    /\ AppIdle

NextHtmx == HtmxLoad \/ AddBoosted

SpecHtmx == InitHtmx /\ [][NextHtmx]_vars

\* Everything that is handed the *App: the registrars, the handlers they build,
\* a LoadAll run and a built-in mixin's Load, interleaved.
AppLoaders ==
    <<NilLoader,
      [isNil |-> FALSE, err |-> NoErr, finished |-> FALSE],
      [isNil |-> FALSE, err |-> NoErr, finished |-> FALSE]>>

InitApp ==
    /\ app \in Apps
    /\ phase = "setup"
    /\ mux = [p \in Patterns |-> NoRoute]
    /\ req = [r \in Reqs |-> IdleReq]
    /\ nextView = 1
    /\ loaders = AppLoaders
    /\ li = 1
    /\ calls = <<>>
    /\ ret = NotReturned
    /\ hx = HtmxRequest([NoHeaders EXCEPT !["HX-Request"] = "true"])
    /\ ParseIdle
    /\ MixIdle

NextApp ==
    \/ \E p \in Patterns : Register(p, FooPtr, <<>>)
    \/ \E p \in Patterns :
          SmartRegister(p, FooPtr, <<"d", "/", "A">>, <<"d", "/", "A", ":", "B">>, <<>>)
    \/ \E p \in Patterns : Page(p, FooPtr, <<TemplateOption(<<"A">>)>>)
    \/ \E p \in Patterns, G \in GroupTypes : RegisterGroup(p, G)
    \/ StartServing
    \/ \E r \in Reqs, p \in Patterns : HandlerStart(r, p)
    \/ \E r \in Reqs, err \in {NoErr, "e1"}, finished \in BOOLEAN, frag \in BOOLEAN :
          LoadReturns(r, err, finished, frag, FALSE)
    \/ \E r \in Reqs, renderErr \in RenderErrors \cup {NoErr} : RenderReturns(r, renderErr)
    \/ LoadAllIter
    \/ LoadAllEnd
    \/ HtmxLoad
    \/ AddBoosted

SpecApp == InitApp /\ [][NextApp]_vars

\* Routes registered with middleware, and requests passing through it.
MwOptions ==
    {MiddlewareOption(<<"m1">>), MiddlewareOption(<<"m1", "m2">>),
     MiddlewareOption(<<"m3">>), TemplateOption(<<"A">>)}

MwOptionLists == UNION {[1..n -> MwOptions] : n \in 0..MaxMwOpts}

NextMw ==
    \/ \E p \in Patterns, opts \in MwOptionLists : Register(p, FooPtr, opts)
    \/ StartServing
    \/ \E r \in Reqs, p \in Patterns : Dispatch(r, p)
    \/ \E r \in Reqs, callsNext \in BOOLEAN : MiddlewareEnter(r, callsNext)
    \/ \E r \in Reqs, p \in Patterns : HandlerStart(r, p)
    \/ \E r \in Reqs, err \in {NoErr, "e1"} : LoadReturns(r, err, FALSE, FALSE, FALSE)
    \/ \E r \in Reqs : RenderReturns(r, NoErr)

SpecMw == Init /\ [][NextMw]_vars

Idle == LoadIdle /\ ParseIdle /\ RouteIdle /\ AppIdle /\ HxIdle

\* A WithPagination loaded from a request's query and then given a total, or
\* filled in by the caller and evaluated.
InitPagination ==
    /\ pg \in {[stage |-> "request", loaded |-> TRUE,
                 query |-> [NoQuery EXCEPT !["page"] = a, !["pageSize"] = b],
                 p |-> ZeroWithPagination] : a \in PageQueries, b \in SizeQueries}
           \cup
           {[stage |-> "literal", loaded |-> FALSE, query |-> NoQuery,
             p |-> [ZeroWithPagination EXCEPT !.CurrentPage = c, !.PageSize = z,
                                              !.TotalCount = t]] :
                c \in FieldSamples, z \in FieldSamples, t \in FieldSamples}
    /\ Idle
    /\ BpIdle /\ AuIdle /\ HrIdle /\ GmIdle /\ BldIdle

NextPagination ==
    \/ PaginationLoad
    \/ \E total \in Totals, hasMore \in BOOLEAN : PaginationSetTotal(total, hasMore)
    \/ PaginationEvalPages

SpecPagination == InitPagination /\ [][NextPagination]_vars

\* A BasePage as constructed, then loaded up to MaxLoads times.
InitBasePage ==
    /\ bp \in {[stage |-> "live", hist |-> <<p>>, rets |-> <<>>] : p \in BasePages}
    /\ Idle
    /\ PgIdle /\ AuIdle /\ HrIdle /\ GmIdle /\ BldIdle

NextBasePage == BasePageLoadCall

SpecBasePage == InitBasePage /\ [][NextBasePage]_vars

\* A page's WithAuth loaded through a provider: by a direct LoadWithAuth call,
\* or by the AuthLoader entry of a LoadAll chain of two loaders.
NoAuthRun == [ran |-> FALSE, log |-> <<>>, ret |-> NotReturned]

InitAuth ==
    /\ \E provider \in Providers, p \in AuthPages :
        \/ /\ au = [stage |-> "live", via |-> "direct", pos |-> 0,
                    provider |-> provider, p |-> p] @@ NoAuthRun
           /\ loaders = <<>>
        \/ \E other \in LoaderKinds :
            \/ /\ au = [stage |-> "live", via |-> "chain", pos |-> 1,
                        provider |-> provider, p |-> p] @@ NoAuthRun
               /\ loaders = <<AuthLoader(p, provider), other>>
            \/ /\ au = [stage |-> "live", via |-> "chain", pos |-> 2,
                        provider |-> provider, p |-> p] @@ NoAuthRun
               /\ loaders = <<other, AuthLoader(p, provider)>>
    /\ li = 1
    /\ calls = <<>>
    /\ ret = NotReturned
    /\ ParseIdle /\ RouteIdle /\ AppIdle /\ HxIdle
    /\ PgIdle /\ BpIdle /\ HrIdle /\ GmIdle /\ BldIdle

NextAuth ==
    \/ LoadWithAuthCall
    \/ AuthLoaderIter
    \/ OtherLoaderIter
    \/ AuthChainEnd

SpecAuth == InitAuth /\ [][NextAuth]_vars

\* Two responses that start alike; the same two setter invocations are made on
\* both, in one order on the first and in the other order on the second.
InitHtmxResponse ==
    /\ \E a \in SetterInvocations, b \in SetterInvocations :
        hr = [stage |-> "live", first |-> a, second |-> b,
              w |-> <<NewResponse, NewResponse>>,
              todo |-> <<(<<a, b>>), (<<b, a>>)>>,
              changed |-> <<(<<>>), (<<>>)>>]
    /\ Idle
    /\ PgIdle /\ BpIdle /\ AuIdle /\ GmIdle /\ BldIdle

NextHtmxResponse == \E i \in {1, 2} : HtmxResponseCall(i)

SpecHtmxResponse == InitHtmxResponse /\ [][NextHtmxResponse]_vars

\* A builder on which Use, Page and Handler are called in any order, then built
\* and its routes requested.
InitBuilder ==
    /\ bld = [stage |-> "setup", b |-> NewMuxBuilder, used |-> <<>>, ncalls |-> 0,
              usedBefore |-> [p \in BuilderPatterns |-> <<>>],
              served |-> [p \in BuilderPatterns |-> [done |-> FALSE, entered |-> <<>>]]]
    /\ Idle
    /\ PgIdle /\ BpIdle /\ AuIdle /\ HrIdle /\ GmIdle

NextBuilder ==
    \/ \E mw \in BuilderMiddleware : MuxBuilderUse(mw)
    \/ \E pattern \in BuilderPatterns, opts \in BuilderPageOpts : MuxBuilderPage(pattern, opts)
    \/ \E pattern \in BuilderPatterns : MuxBuilderHandler(pattern)
    \/ MuxBuilderBuild
    \/ \E pattern \in BuilderPatterns : MuxBuilderServe(pattern)

SpecBuilder == InitBuilder /\ [][NextBuilder]_vars

\* A page group mounted at p with a group nested in it at q, by RegisterGroup or
\* by MuxBuilder.Group, and requests sent to the root mux.
InitGroup ==
    /\ gm \in {[stage |-> "setup", via |-> via, p |-> p, q |-> q, root |-> <<>>, log |-> <<>>] :
                  via \in GroupVias, p \in GroupPrefixes \cup {<<>>}, q \in NestedPrefixes}
    /\ Idle
    /\ PgIdle /\ BpIdle /\ AuIdle /\ HrIdle /\ BldIdle

NextGroup ==
    \/ GroupSetup
    \/ \E r \in GroupPaths : GroupRequest(r)
    \/ \E r \in GroupPaths : NestedGroupRequest(r)
    \/ FollowRedirect

SpecGroup == InitGroup /\ [][NextGroup]_vars

(* ============================== claims ================================= *)
\* The first entry of loaders that is neither nil nor returns (nil, false); 0 if
\* there is none.
FirstDecisive ==
    LET D == {i \in 1..Len(loaders) :
                ~loaders[i].isNil /\ (loaders[i].err # NoErr \/ loaders[i].finished)}
    IN  IF D = {} THEN 0 ELSE CHOOSE i \in D : \A j \in D : i <= j

NonNilIndices ==
    SelectSeq([i \in 1..Len(loaders) |-> i], LAMBDA i : ~loaders[i].isNil)

IsPrefix(s, t) == Len(s) <= Len(t) /\ SubSeq(t, 1, Len(s)) = s

\* C1: when the first loader that does not return (nil, false) returns (err, false)
\* with err non-nil, no loader after it is ever invoked and LoadAll returns
\* exactly (err, false).
C1_ShortCircuitOnError ==
    LET k == FirstDecisive
    IN  (k >= 1 /\ loaders[k].err # NoErr /\ ~loaders[k].finished) =>
            /\ \A j \in Range(calls) : j <= k
            /\ ret.returned => (ret.err = loaders[k].err /\ ret.finished = FALSE)

C1_Witness ==
    /\ ret.returned
    /\ Len(loaders) = 3
    /\ loaders[1] = [isNil |-> FALSE, err |-> NoErr, finished |-> FALSE]
    /\ loaders[2] = [isNil |-> FALSE, err |-> "e1", finished |-> FALSE]
    /\ ~loaders[3].isNil
    /\ calls = <<1, 2>>

\* C2: when the loader that ends the chain returns (nil, true), no loader after it
\* is invoked and LoadAll returns exactly (nil, true).
C2_ShortCircuitOnFinished ==
    LET k == FirstDecisive
    IN  (k >= 1 /\ loaders[k].err = NoErr /\ loaders[k].finished) =>
            /\ \A j \in Range(calls) : j <= k
            /\ ret.returned => (ret.err = NoErr /\ ret.finished = TRUE)

C2_Witness ==
    /\ ret.returned
    /\ Len(loaders) >= 2
    /\ loaders[1] = [isNil |-> FALSE, err |-> NoErr, finished |-> TRUE]
    /\ ~loaders[2].isNil
    /\ calls = <<1>>

\* C3: when every non-nil loader returns (nil, false), the loaders invoked so far
\* are the non-nil ones in the caller's order, each once; nil entries are stepped
\* over; and LoadAll returns (nil, false) after all of them ran.
C3_FullSequence ==
    (FirstDecisive = 0) =>
        /\ IsPrefix(calls, NonNilIndices)
        /\ ret.returned => (calls = NonNilIndices /\ ret.err = NoErr /\ ret.finished = FALSE)

C3_Witness ==
    /\ ret.returned
    /\ FirstDecisive = 0
    /\ Len(loaders) = 3
    /\ ~loaders[1].isNil /\ loaders[2].isNil /\ ~loaders[3].isNil
    /\ calls = <<1, 3>>

Started(r) == req[r].pc \in {"loading", "rendering", "done"}
RouteOf(r) == IF Started(r) THEN mux[req[r].pattern] ELSE NoRoute
LoadReturned(r) == req[r].pc \in {"rendering", "done"}
RegistrarWrote(r) == \E i \in 1..Len(req[r].resp) : req[r].resp[i].by # "view"

\* C4: in a handler built by Register, once Load has returned finished = true with
\* a nil error the handler has returned; RenderTemplate was not called and nothing
\* but the view itself wrote to the response.
C4_FinishedSkipsRender ==
    \A r \in Reqs :
        (LoadReturned(r) /\ RouteOf(r).kind = "Register"
            /\ req[r].finished /\ req[r].err = NoErr) =>
                /\ req[r].pc = "done"
                /\ req[r].renders = <<>>
                /\ ~RegistrarWrote(r)

C4_Witness ==
    \E r \in Reqs :
        /\ req[r].pc = "done" /\ RouteOf(r).kind = "Register"
        /\ req[r].finished /\ req[r].err = NoErr
        /\ req[r].resp = <<ViewWrite>>

\* C5: in a handler built by Register, once Load has returned (err, false) with err
\* non-nil the request has ended with a single 500 response whose body is the
\* error's message, and RenderTemplate was not called.
C5_LoadErrorIs500 ==
    \A r \in Reqs :
        (LoadReturned(r) /\ RouteOf(r).kind = "Register"
            /\ ~req[r].finished /\ req[r].err # NoErr) =>
                /\ req[r].pc = "done"
                /\ req[r].renders = <<>>
                /\ Len(req[r].resp) = 1
                /\ req[r].resp[1].status = 500
                /\ req[r].resp[1].body = ErrorText(req[r].err)

C5_Witness ==
    \E r \in Reqs :
        /\ req[r].pc = "done" /\ RouteOf(r).kind = "Register"
        /\ ~req[r].finished /\ req[r].err = "e2"
        /\ req[r].resp[1].body = "not found"

\* C6: in a handler built by Register, a request whose Load returns (nil, false)
\* gets exactly one RenderTemplate call, made after Load returned and not before,
\* with the file and block names the route resolved and the view Load populated.
C6_ExactlyOneRender ==
    \A r \in Reqs :
        RouteOf(r).kind = "Register" =>
            /\ (Started(r) /\ ~LoadReturned(r)) => req[r].renders = <<>>
            /\ (LoadReturned(r) /\ ~req[r].finished /\ req[r].err = NoErr) =>
                   /\ Len(req[r].renders) = 1
                   /\ req[r].renders[1].file = RegisterTemplate(RouteOf(r).vtype, RouteOf(r).opts).file
                   /\ req[r].renders[1].block = RegisterTemplate(RouteOf(r).vtype, RouteOf(r).opts).block
                   /\ req[r].renders[1].view = req[r].view.id
                   /\ req[r].renders[1].loaded

C6_Witness ==
    \E r \in Reqs :
        /\ req[r].pc = "done" /\ RouteOf(r).kind = "Register"
        /\ RouteOf(r).opts = <<TemplateOption(<<"d", "/", "A", ":", "B">>)>>
        /\ ~req[r].finished /\ req[r].err = NoErr
        /\ req[r].renders = <<[file |-> <<"d", "/", "A">>, block |-> <<"B">>,
                               view |-> req[r].view.id, loaded |-> TRUE]>>

\* C7: when Load returns a non-nil error together with finished = true, the handler
\* of every registrar (Register, SmartRegister, MuxBuilder.Page) neither renders
\* nor writes an error response.
C7_FinishedBeatsError ==
    \A r \in Reqs :
        (LoadReturned(r) /\ req[r].finished /\ req[r].err # NoErr) =>
            /\ req[r].pc = "done"
            /\ req[r].renders = <<>>
            /\ ~RegistrarWrote(r)

C7_Witness ==
    \E r \in Reqs :
        /\ req[r].pc = "done" /\ RouteOf(r).kind = "SmartRegister"
        /\ req[r].finished /\ req[r].err # NoErr

\* C8: every non-nil error Load returned has been logged, with the route's template
\* identity, by the time the handler is done -- whatever the registrar, and also
\* when the error came with finished = true.
C8_LoadErrorsLogged ==
    \A r \in Reqs :
        (req[r].pc = "done" /\ req[r].err # NoErr) =>
            \E i \in 1..Len(req[r].logs) :
                /\ req[r].logs[i].err = req[r].err
                /\ req[r].logs[i].ident

\* The template spec string a route was registered with, if any.
HasSpec(route, view) ==
    \/ route.kind = "SmartRegister"
    \/ route.kind \in {"Register", "Page"} /\ Len(route.opts) = 1
NamesFile(spec) == ParseTemplateSpec(spec).fileName # <<>>
SpecOf(route, view) ==
    IF route.kind = "SmartRegister"
    THEN (IF view.frag THEN route.fragSpec ELSE route.fullSpec)
    ELSE route.opts[1].spec

\* C9: whichever way a route was given its template spec string s (Register or
\* MuxBuilder.Page with WithTemplate(s), SmartRegister with s), every render of the
\* route uses exactly (file, block) = ParseTemplateSpec(s); a spec ending in ':'
\* renders with the empty block name. Stated for the specs that name a file (for
\* the others Register falls back to the type name and Page fails at setup).
C9_SameParsingEverywhere ==
    \A r \in Reqs :
        (LoadReturned(r) /\ HasSpec(RouteOf(r), req[r].view)
            /\ NamesFile(SpecOf(RouteOf(r), req[r].view))) =>
            \A i \in 1..Len(req[r].renders) :
                /\ req[r].renders[i].file = ParseTemplateSpec(SpecOf(RouteOf(r), req[r].view)).fileName
                /\ req[r].renders[i].block = ParseTemplateSpec(SpecOf(RouteOf(r), req[r].view)).blockName

Count(s, c) == Cardinality({i \in 1..Len(s) : s[i] = c})

\* C10: ParseTemplateSpec splits at the last ':'. Without a ':' the file is the
\* spec and the block is what follows the last '/' (the whole spec without one);
\* with one, spec = file ':' block and block holds no ':' (it may be empty).
C10_SplitAtLastColon ==
    parsed.done =>
        /\ IF Count(pspec, ":") = 0
           THEN /\ parsed.fileName = pspec
                /\ Count(parsed.blockName, "/") = 0
                /\ \E k \in 0..Len(pspec) :
                       /\ pspec = SubSeq(pspec, 1, k) \o parsed.blockName
                       /\ k > 0 => pspec[k] = "/"
           ELSE /\ pspec = parsed.fileName \o <<":">> \o parsed.blockName
                /\ Count(parsed.blockName, ":") = 0
        /\ pspec = <<"A">> => (parsed.fileName = <<"A">> /\ parsed.blockName = <<"A">>)
        /\ pspec = <<"d", "/", "A">> =>
               (parsed.fileName = <<"d", "/", "A">> /\ parsed.blockName = <<"A">>)
        /\ pspec = <<"d", "/", "A", ":", "B">> =>
               (parsed.fileName = <<"d", "/", "A">> /\ parsed.blockName = <<"B">>)
        /\ pspec = <<"d", "/", "A", ":">> =>
               (parsed.fileName = <<"d", "/", "A">> /\ parsed.blockName = <<>>)

C10_Witness ==
    /\ parsed.done
    /\ pspec = <<"A", ":", "B", ":">>
    /\ parsed.fileName = <<"A", ":", "B">>
    /\ parsed.blockName = <<>>

IsString(s) == s \in Seq(Chars)

\* C11 (as amended): ParseTemplateSpec returns a pair of strings for every string,
\* and parsing the file name it returned gives that file name again whenever the
\* spec holds at most one ':'.
C11_TotalAndIdempotentUpToOneColon ==
    /\ ~parsed.done => ENABLED ParseSpec
    /\ parsed.done => (IsString(parsed.fileName) /\ IsString(parsed.blockName))
    /\ (reparsed.done /\ Count(pspec, ":") <= 1) => reparsed.fileName = parsed.fileName

C11_Witness ==
    /\ reparsed.done
    /\ pspec = <<"d", "/", "A", ":", "B">>
    /\ parsed.fileName = <<"d", "/", "A">>
    /\ reparsed.fileName = <<"d", "/", "A">>

\* C11 (as claimed): for every string, parsing the returned file name again yields
\* the same file name.
C11_IdempotentOnEveryString ==
    reparsed.done => reparsed.fileName = parsed.fileName

\* C12: a route registered by Register with no template option has the view's
\* declared type name (no pointer mark, no package) as its file name and as its
\* block name, and renders with them: view type Foo renders file Foo, block Foo.
C12_DefaultTemplateIsTypeName ==
    /\ \A p \in Patterns :
           (mux[p].kind = "Register" /\ mux[p].opts = <<>>) =>
               (mux[p].file = mux[p].vtype.name /\ mux[p].block = mux[p].vtype.name)
    /\ \A r \in Reqs :
           (RouteOf(r).kind = "Register" /\ RouteOf(r).opts = <<>>) =>
               \A i \in 1..Len(req[r].renders) :
                   /\ req[r].renders[i].file = RouteOf(r).vtype.name
                   /\ req[r].renders[i].block = RouteOf(r).vtype.name

C12_Witness ==
    \E r \in Reqs :
        /\ req[r].pc = "done"
        /\ RouteOf(r).kind = "Register" /\ RouteOf(r).opts = <<>>
        /\ RouteOf(r).vtype = FooPtr
        /\ Len(req[r].renders) = 1
        /\ req[r].renders[1].file = <<"F", "o", "o">>
        /\ req[r].renders[1].block = <<"F", "o", "o">>

\* C13: MuxBuilder.Page is equivalent to Register: it registers whenever Register
\* does (Register never panics here), resolves the same (file, block) for the same
\* options, a missing template option included, and answers a render error with
\* the 500 "Template render error" response.
C13_PageEquivalentToRegister ==
    /\ phase # "panicked"
    /\ \A p \in Patterns :
           mux[p].kind = "Page" =>
               /\ mux[p].file = RegisterTemplate(mux[p].vtype, mux[p].opts).file
               /\ mux[p].block = RegisterTemplate(mux[p].vtype, mux[p].opts).block
    /\ \A r \in Reqs :
           (RouteOf(r).kind = "Page" /\ req[r].pc = "done" /\ req[r].renderErr # NoErr) =>
               req[r].resp = <<HttpError("Template render error", 500)>>

\* C14: a view type that is not a pointer type fails at setup, so no request ever
\* meets the panic: no handler invocation panics in newInstance.
C14_NoPerRequestPanic ==
    \A r \in Reqs : req[r].pc # "panicked"

\* C15: on routes built by Register or SmartRegister no two handler invocations
\* hold the same view instance; the instance handed to Load is a zero value, and
\* the renderer is handed the very instance this invocation created and loaded.
HasView(r) == Started(r) /\ RouteOf(r).kind \in {"Register", "SmartRegister"}

C15_ViewsNeverShared ==
    /\ \A r1, r2 \in Reqs :
           (r1 # r2 /\ HasView(r1) /\ HasView(r2)) => req[r1].view.id # req[r2].view.id
    /\ \A r \in Reqs :
           HasView(r) =>
               /\ req[r].view.id # NoView.id
               /\ req[r].pc = "loading" => (~req[r].view.loaded /\ ~req[r].view.frag)
               /\ \A i \in 1..Len(req[r].renders) :
                      /\ req[r].renders[i].view = req[r].view.id
                      /\ req[r].renders[i].loaded

\* two invocations in flight at once: one already rendering its loaded view, the
\* other about to load its own zero-valued one
C15_Witness ==
    /\ HasView(1) /\ HasView(2)
    /\ req[1].pc = "rendering" /\ req[1].view.loaded /\ req[1].renders[1].view = req[1].view.id
    /\ req[2].pc = "loading" /\ ~req[2].view.loaded
    /\ req[1].view.id # req[2].view.id

\* C18: in a handler built by Register, when Load succeeded and RenderTemplate
\* returned an error, the response is one 500 whose body is the fixed text
\* "Template render error", which is not the render error's own message.
RenderFailed(r) ==
    /\ req[r].pc = "done"
    /\ ~req[r].finished /\ req[r].err = NoErr
    /\ req[r].renderErr # NoErr

C18_RenderErrorIsFixed500 ==
    \A r \in Reqs :
        (RouteOf(r).kind = "Register" /\ RenderFailed(r)) =>
            /\ req[r].resp = <<HttpError("Template render error", 500)>>
            /\ \A i \in 1..Len(req[r].resp) : req[r].resp[i].body # ErrorText(req[r].renderErr)

C18_Witness ==
    \E r \in Reqs :
        /\ RouteOf(r).kind = "Register" /\ RenderFailed(r)
        /\ req[r].renderErr = "rerr"
        /\ Len(req[r].renders) = 1
        /\ req[r].resp[1].status = 500 /\ req[r].resp[1].body = "Template render error"

\* C19: a handler built by SmartRegister whose Load succeeded renders once, with
\* the parsed fragment spec when the view's ShouldRenderFragment() is true and
\* with the parsed full-page spec otherwise, whatever other requests chose.
SmartLoaded(r) ==
    /\ RouteOf(r).kind = "SmartRegister"
    /\ LoadReturned(r) /\ ~req[r].finished /\ req[r].err = NoErr

ChosenSpec(r) == IF req[r].view.frag THEN RouteOf(r).fragSpec ELSE RouteOf(r).fullSpec

C19_TemplateChosenPerRequest ==
    \A r \in Reqs :
        SmartLoaded(r) =>
            /\ Len(req[r].renders) = 1
            /\ req[r].renders[1].file = ParseTemplateSpec(ChosenSpec(r)).fileName
            /\ req[r].renders[1].block = ParseTemplateSpec(ChosenSpec(r)).blockName

\* two requests to one route, the first rendered the fragment, the second the page
C19_Witness ==
    /\ SmartLoaded(1) /\ SmartLoaded(2)
    /\ req[1].pattern = req[2].pattern
    /\ RouteOf(1).fullSpec = <<"d", "/", "A">> /\ RouteOf(1).fragSpec = <<"d", "/", "A", ":", "B">>
    /\ req[1].view.frag /\ req[1].renders[1].block = <<"B">>
    /\ ~req[2].view.frag /\ req[2].renders[1].block = <<"A">>

\* C16: no step of the route/mixin layer (the registrars, the handlers they
\* build, RenderTemplate, LoadAll, a built-in mixin's Load) changes App.Context,
\* App.Templates or App.RenderTemplateFunc.
C16_AppNeverMutated ==
    [][/\ app'.Context = app.Context
       /\ app'.Templates = app.Templates
       /\ app'.RenderTemplateFunc = app.RenderTemplateFunc]_vars

\* a request was rendered, LoadAll ran and the mixin loaded, and the App is still
\* what NewApp made
C16_Witness ==
    /\ app = NewApp("ctx", "templates")
    /\ \E r \in Reqs : req[r].pc = "done" /\ Len(req[r].renders) = 1 /\ req[r].resp = <<RenderWrite>>
    /\ ret.returned
    /\ hx.stage = "loaded"

\* C20: after Load, ShouldRenderFragment is true exactly when the request's
\* HX-Request header is "true" and its HX-Boosted header is not "true"; the
\* request that yielded true, sent again with HX-Boosted: true, yields false.
C20_FragmentIffHtmxNotBoosted ==
    hx.stage = "loaded" =>
        /\ ShouldRenderFragment(hx.p) <=>
               (Get(hx.header, "HX-Request") = "true" /\ Get(hx.header, "HX-Boosted") # "true")
        /\ (hx.resent /\ hx.prev) => ~ShouldRenderFragment(hx.p)

C20_Witness ==
    /\ hx.stage = "loaded" /\ hx.resent /\ hx.prev
    /\ hx.p.IsHtmx /\ hx.p.IsBoosted
    /\ ~ShouldRenderFragment(hx.p)

\* C17: the middleware of a Register call is the concatenation, in listing
\* order, of the arguments of its WithMiddleware options; a request enters them
\* in that order, first-listed first, and the view handler only after the last.
RECURSIVE ListedMiddleware(_)
ListedMiddleware(opts) ==
    IF opts = <<>> THEN <<>>
    ELSE (IF Head(opts).kind = "WithMiddleware" THEN Head(opts).mw ELSE <<>>)
             \o ListedMiddleware(Tail(opts))

EnteredVia(r) == ListedMiddleware(mux[req[r].pattern].opts) \o <<"view">>

C17_FirstListedOutermost ==
    \A r \in Reqs :
        (req[r].pc # "idle" /\ mux[req[r].pattern].kind = "Register") =>
            /\ IsPrefix(req[r].entered, EnteredVia(r))
            /\ req[r].pc \in {"loading", "rendering"} => req[r].entered = EnteredVia(r)

C17_Witness ==
    \E r \in Reqs :
        /\ req[r].pc = "rendering"
        /\ mux[req[r].pattern].kind = "Register"
        /\ mux[req[r].pattern].opts = <<MiddlewareOption(<<"m1", "m2">>), MiddlewareOption(<<"m3">>)>>
        /\ req[r].entered = <<"m1", "m2", "m3", "view">>

Min(a, b) == IF a <= b THEN a ELSE b
Max(a, b) == IF a >= b THEN a ELSE b

\* ceil(t / z) for z > 0, in unbounded integers
CeilDiv(t, z) == -((-t) \div z)

FromRequest == pg.stage \in {"loaded", "evaluated"} /\ pg.loaded

\* C22: after Load, CurrentPage is the page query value (0 when absent) and
\* PageSize is the pageSize query value clamped to [1,100], min(max(v,1),100),
\* or 20 when the parameter is absent; PageSize is always within [1,100].
C22_PageSizeClamped ==
    FromRequest =>
        LET page == pg.query["page"]
            size == pg.query["pageSize"]
        IN  /\ page.kind = "absent" => pg.p.CurrentPage = 0
            /\ (page.kind = "int" /\ page.n >= 0) => pg.p.CurrentPage = page.n
            /\ size.kind = "absent" => pg.p.PageSize = 20
            /\ size.kind = "int" => pg.p.PageSize = Min(Max(size.n, 1), 100)
            /\ pg.p.PageSize \in 1..100

\* C23: whatever TotalCount, PageSize and CurrentPage hold, the window EvalPages
\* computes has at most 5 entries, each within [0, ceil(TotalCount/PageSize)),
\* and it is empty when that number of pages is at most 1 (or PageSize is not
\* positive).
C23_WindowBounded ==
    pg.stage = "evaluated" =>
        /\ Len(pg.p.Pages) <= 5
        /\ pg.p.PageSize <= 0 => pg.p.Pages = <<>>
        /\ pg.p.PageSize > 0 =>
               LET pages == CeilDiv(pg.p.TotalCount, pg.p.PageSize)
               IN  /\ \A i \in 1..Len(pg.p.Pages) : pg.p.Pages[i] \in 0..(pages - 1)
                   /\ pages <= 1 => pg.p.Pages = <<>>

\* page 3 of 101 pages: the window is 1..5
C23_Witness ==
    /\ pg.stage = "evaluated"
    /\ pg.p.CurrentPage = 3 /\ pg.p.PageSize = 1 /\ pg.p.TotalCount = 101
    /\ pg.p.Pages = <<1, 2, 3, 4, 5>>

\* C24: for a page number p >= 0 taken from the query and a page size s in
\* [1,100], Offset() is the product p * s.
C24_OffsetIsProduct ==
    (FromRequest /\ pg.p.CurrentPage >= 0 /\ pg.p.PageSize \in 1..100) =>
        Offset(pg.p) = pg.p.CurrentPage * pg.p.PageSize

\* C29: when there is more than one page, the window of a loaded WithPagination
\* holds exactly min(5, totalPages) consecutive ascending page numbers, and it
\* holds CurrentPage when 0 <= CurrentPage < totalPages.
C29_WindowAroundCurrent ==
    (pg.stage = "evaluated" /\ pg.loaded /\ pg.p.PageSize > 0
        /\ CeilDiv(pg.p.TotalCount, pg.p.PageSize) > 1) =>
        LET pages == CeilDiv(pg.p.TotalCount, pg.p.PageSize)
            w == pg.p.Pages
        IN  /\ Len(w) = Min(5, pages)
            /\ \A i \in 1..(Len(w) - 1) : w[i + 1] = w[i] + 1
            /\ (pg.p.CurrentPage >= 0 /\ pg.p.CurrentPage < pages) =>
                   \E i \in 1..Len(w) : w[i] = pg.p.CurrentPage

\* C27: BasePage.Load never overwrites an explicit BodyClass and is idempotent:
\* after any number of Load calls a BodyClass that was non-empty is what it was,
\* one that was empty is the default class string, no other field differs from
\* the constructed page, and a second Load leaves the page as the first left it.
C27_BasePageLoadIdempotent ==
    bp.stage = "live" =>
        \A k \in 2..Len(bp.hist) :
            /\ bp.hist[k].BodyClass = IF bp.hist[1].BodyClass = "" THEN DefaultBodyClass
                                      ELSE bp.hist[1].BodyClass
            /\ [bp.hist[k] EXCEPT !.BodyClass = ""] = [bp.hist[1] EXCEPT !.BodyClass = ""]
            /\ bp.hist[k] = bp.hist[2]

C27_Witness ==
    /\ bp.stage = "live"
    /\ Len(bp.hist) = 3
    /\ bp.hist[1].BodyClass = "p-4"
    /\ bp.hist[3].BodyClass = "p-4"
    /\ bp.hist[1].Title = "Games"

AuthRan == au.stage = "live" /\ au.ran

\* C25: the auth mixin never fails when nobody is logged in: if the provider
\* returns the empty id, LoadWithAuth returns (nil, false) and leaves IsLoggedIn
\* false, and in a LoadAll chain the loader after the AuthLoader entry is run.
C25_AnonymousNeverFails ==
    (AuthRan /\ au.provider.id = "") =>
        /\ au.ret = Returned(NoErr, FALSE)
        /\ ~au.p.IsLoggedIn
        /\ au.via = "chain" =>
            /\ li > au.pos
            /\ (ret.returned /\ au.pos < Len(loaders) /\ ~loaders[au.pos + 1].isNil) =>
                   (au.pos + 1) \in Range(calls)

C25_Witness ==
    /\ AuthRan
    /\ au.provider.id = ""
    /\ au.via = "chain"
    /\ au.pos = 1
    /\ ~au.p.IsLoggedIn
    /\ calls = <<1, 2>>
    /\ ret.returned

\* C30: within one LoadWithAuth, GetUserById is called at most once, only after
\* GetLoggedInUserId returned a non-empty id and with exactly that id; IsLoggedIn
\* is true exactly when LoggedInUserId is non-empty; and whatever GetUserById
\* returns, LoadWithAuth returns (nil, false).
C30_LookupOnlyForLoggedInUser ==
    AuthRan =>
        /\ Cardinality({k \in 1..Len(au.log) : au.log[k].fn = "GetUserById"}) <= 1
        /\ \A k \in 1..Len(au.log) :
               au.log[k].fn = "GetUserById" =>
                   \E j \in 1..(k - 1) :
                       /\ au.log[j].fn = "GetLoggedInUserId"
                       /\ au.log[j].ret # ""
                       /\ au.log[k].arg = au.log[j].ret
        /\ au.p.IsLoggedIn <=> (au.p.LoggedInUserId # "")
        /\ au.ret = Returned(NoErr, FALSE)

C30_Witness ==
    /\ AuthRan
    /\ au.provider.id = "u1"
    /\ au.provider.err # NoErr
    /\ Len(au.log) = 2
    /\ au.log[2] = [fn |-> "GetUserById", arg |-> "u1", ret |-> au.provider.user]
    /\ au.p.IsLoggedIn
    /\ au.ret = Returned(NoErr, FALSE)

\* The header a setter writes.
OwnHeader(inv) ==
    CASE inv.fn \in {"Trigger", "TriggerWithData"}      -> {"HX-Trigger"}
      [] inv.fn = "TriggerAfterSettle"                  -> {"HX-Trigger-After-Settle"}
      [] inv.fn = "TriggerAfterSwap"                    -> {"HX-Trigger-After-Swap"}
      [] inv.fn = "Redirect"                            -> {"HX-Redirect"}
      [] inv.fn \in {"Location", "LocationWithContext"} -> {"HX-Location"}
      [] inv.fn = "Refresh"                             -> {"HX-Refresh"}
      [] inv.fn = "PushURL"                             -> {"HX-Push-Url"}
      [] inv.fn = "ReplaceURL"                          -> {"HX-Replace-Url"}
      [] inv.fn = "Retarget"                            -> {"HX-Retarget"}
      [] inv.fn = "Reswap"                              -> {"HX-Reswap"}
      [] inv.fn = "Reselect"                            -> {"HX-Reselect"}
      [] OTHER                                          -> {}

BothOrdersDone == hr.stage = "live" /\ hr.todo = <<(<<>>), (<<>>)>>

\* C26: HtmxResponse setters have no ordering dependency: two setter invocations
\* made on a response in either order leave the same header set, and each setter
\* changes no header but its own.
C26_SettersOrderIndependent ==
    BothOrdersDone =>
        /\ hr.w[1].header = hr.w[2].header
        /\ hr.changed[1][1] \subseteq OwnHeader(hr.first)
        /\ hr.changed[1][2] \subseteq OwnHeader(hr.second)
        /\ hr.changed[2][1] \subseteq OwnHeader(hr.second)
        /\ hr.changed[2][2] \subseteq OwnHeader(hr.first)

\* No setter changes a header but its own.
OnlyOwnHeaderChanged ==
    BothOrdersDone =>
        /\ hr.changed[1][1] \subseteq OwnHeader(hr.first)
        /\ hr.changed[1][2] \subseteq OwnHeader(hr.second)

\* Setters that write different headers do commute.
DistinctHeadersCommute ==
    (BothOrdersDone /\ OwnHeader(hr.first) \cap OwnHeader(hr.second) = {}) =>
        hr.w[1] = hr.w[2]

\* C28: MuxBuilder.Use(mw) adds middleware to all subsequent routes: a request to
\* a route added after a Use(mw) call passes through mw, and a request to a route
\* added before every Use(mw) call does not.
C28_UseCoversLaterRoutes ==
    bld.stage = "serving" =>
        \A p \in BuilderPatterns :
            bld.served[p].done =>
                /\ \A mw \in Range(bld.usedBefore[p]) : mw \in Range(bld.served[p].entered)
                /\ \A mw \in Range(bld.used) \ Range(bld.usedBefore[p]) :
                       mw \notin Range(bld.served[p].entered)

\* The request reached the ServeMux it was meant for, with the path meant.
ReachedAim(e) ==
    \E k \in 1..Len(e.res.trail) : e.res.trail[k] = e.aim

\* C21: a group registered under a prefix is mounted at the prefix with "/"
\* appended unless it ends in "/", and the prefix is stripped, so that a request
\* for prefix+r reaches the group's sub-router with path r, and a request for
\* p+q+r reaches a group nested at q in a group at p with path r; the same for
\* MuxBuilder.Group.
C21_GroupServesUnderPrefix ==
    /\ gm.stage = "panicked" => FALSE
    /\ gm.stage = "serving" =>
           /\ \E i \in 1..Len(gm.root) :
                  /\ gm.root[i].kind = "strip"
                  /\ gm.root[i].pattern =
                         IF gm.p # <<>> /\ gm.p[Len(gm.p)] = "/" THEN gm.p ELSE gm.p \o <<"/">>
           /\ \A k \in 1..Len(gm.log) :
                  gm.log[k].path = gm.p \o gm.log[k].aim.path
                  \/ gm.log[k].path = gm.p \o gm.q \o gm.log[k].aim.path
                      => ReachedAim(gm.log[k])

\* With prefixes that are non-empty and do not end in "/" the requests do reach
\* the groups.
GroupServesUnderPlainPrefix ==
    (gm.stage # "idle" /\ gm.p = <<"/", "a">> /\ gm.q = <<"/", "b">>)
        => /\ gm.stage # "panicked"
           /\ \A k \in 1..Len(gm.log) : ReachedAim(gm.log[k])

====
